---- MODULE Spec2Model ----
(***************************************************************************)
(* zodvex: the Zod -> Convex validator mapper (mapping/core.ts), the value *)
(* codec (codec.ts) and the record handler (mapping/handlers).             *)
(*                                                                         *)
(* Schema nodes live in a heap and are named by their index, so that node  *)
(* identity (the key of the mapper's visited set) is explicit: two fields  *)
(* that hold the same index share one schema instance, two indices with    *)
(* equal contents are two instances.  Index 0 is an absent (undefined)     *)
(* schema.                                                                 *)
(***************************************************************************)
EXTENDS Integers, Sequences, FiniteSets, TLC

VARIABLES
  schema,    \* the root schema node of the call
  value,     \* the value handed to the codec
  heap,      \* the schema objects the program holds, by identity
  registry,  \* the codec registry, set up before the first call
  pc,        \* how far the exchange has got
  enc,       \* the last result of toConvexJS
  dec,       \* the last result of fromConvexJS
  val,       \* the result of zodToConvex
  branch,    \* the union option the last toConvexJS recursed into at the root, 0 if none
  returns,   \* options.returns of a wrapped handler, 0 when none is given
  parsed,    \* the parsed arguments a wrapped handler hands to the user handler
  raw,       \* what the user handler resolved to
  validated, \* the parsed result of the user handler
  thrown,    \* the error the user handler or a parse threw inside the call
  err,       \* the error a call of a wrapped handler failed with
  steps,     \* the steps a call of a wrapped handler has completed, in order
  customCheckCache, \* the module-level cache of containsCustom
  hasCustom, \* what the last call of containsCustom returned
  registered, \* what zQuery, zMutation or zAction passed to the platform builder
  cur,       \* the call that is running
  calls,     \* the wrapped handler and the wire arguments of every call in flight
  others     \* the suspended or finished call that is not running

\* the state of a call of a wrapped handler
callVars == <<returns, parsed, raw, validated, thrown, err, steps>>

\* the state of the module and of the calls in flight
modVars == <<customCheckCache, hasCustom, registered, cur, calls, others>>

vars == <<heap, schema, value, registry, pc, enc, dec, val, branch, returns, parsed, raw,
          validated, thrown, err, steps, customCheckCache, hasCustom, registered,
          cur, calls, others>>

(***************************************************************************)
(* Bounds of the model.                                                    *)
(***************************************************************************)
\* numbers are 0 .. MaxNum, each with or without a fractional half
MaxNum == 1
\* dates are 0 .. MaxMs epoch milliseconds
MaxMs == 1
\* arrays hold at most MaxLen items
MaxLen == 2
\* depth at which a mapper recursion is reported as a stack overflow
MaxDepth == 6
\* the depth containsCustom stops at; 50 in builders.ts:386, scaled down here so
\* that a chain of wrappers can be deeper than it
maxDepth == 3
\* the longest chain of wrappers around a custom schema
DeepLen == 5

(***************************************************************************)
(* JavaScript values.                                                      *)
(***************************************************************************)
Undef == [t |-> "undef"]
Null == [t |-> "null"]
Num(i, h) == [t |-> "num", i |-> i, half |-> h]
Str(s) == [t |-> "str", s |-> s]
DateV(ms) == [t |-> "date", ms |-> ms]
Arr(items) == [t |-> "arr", items |-> items]
Obj(f) == [t |-> "obj", f |-> f]

NoFields == [k \in {} |-> Undef]
Field(k, v) == [x \in {k} |-> v]
Fields2(k1, v1, k2, v2) == [x \in {k1, k2} |-> IF x = k1 THEN v1 ELSE v2]

\* new Date(n): the time value is the number truncated to an integer (TimeClip)
NewDate(n) == DateV(n.i)
\* a conversion to epoch seconds
GetTime_seconds(d) == Num(d.ms \div 1000, FALSE)
\* date.getTime(): the integral time value as a number
GetTime(d) == Num(d.ms, FALSE)

(***************************************************************************)
(* The schema heap.  A node carries its def.type (kind), the node it wraps *)
(* (inner: optional, nullable, default, array element, record value, lazy  *)
(* getter result, pipe input), an object's shape in entry order, a union's *)
(* options or a tuple's items, a default value, and a tag that codec       *)
(* recognisers look at.                                                    *)
(***************************************************************************)
Node(kind, inner, shape, items, dflt, tag) ==
  [kind |-> kind, inner |-> inner, shape |-> shape, items |-> items,
   dflt |-> dflt, tag |-> tag, values |-> <<>>, orig |-> 0]
Leaf(kind) == Node(kind, 0, <<>>, <<>>, Undef, "")
Tagged(kind, inner, tag) == Node(kind, inner, <<>>, <<>>, Undef, tag)
Wrap(kind, inner) == Node(kind, inner, <<>>, <<>>, Undef, "")
Dflt(inner, d) == Node("default", inner, <<>>, <<>>, d, "")
F(k, n) == [k |-> k, n |-> n]
ZObject(shape) == Node("object", 0, shape, <<>>, Undef, "")
ZUnion(options) == Node("union", 0, <<>>, options, Undef, "")
ZTuple(items) == Node("tuple", 0, <<>>, items, Undef, "")
\* z.enum(values): the values in declared order
ZEnum(values) == [Node("enum", 0, <<>>, <<>>, Undef, "") EXCEPT !.values = values]
\* zBrand(original): a pipe from the original schema, with the brand metadata
\* that names the original schema
ZBrand(original) == [Node("pipe", original, <<>>, <<>>, Undef, "") EXCEPT !.orig = original]

Heap ==
  << Leaf("string"),                              \*  1
     Leaf("number"),                              \*  2
     Leaf("date"),                                \*  3
     Leaf("null"),                                \*  4
     Leaf("any"),                                 \*  5
     Leaf("string"),                              \*  6  a second string instance
     Leaf("date"),                                \*  7  a second date instance
     Wrap("optional", 1),                         \*  8  string?
     Wrap("optional", 3),                         \*  9  date?
     Wrap("nullable", 3),                         \* 10  date | null
     Dflt(2, Num(1, FALSE)),                      \* 11  number.default(1)
     Wrap("optional", 13),                        \* 12  optional(nullable(number))
     Wrap("nullable", 2),                         \* 13  nullable(number)
     Wrap("nullable", 15),                        \* 14  nullable(optional(number))
     Wrap("optional", 2),                         \* 15  number?
     Dflt(8, Str("x")),                           \* 16  string.optional().default("x")
     Wrap("optional", 11),                        \* 17  number.default(1).optional()
     Wrap("array", 3),                            \* 18  date[]
     Wrap("array", 8),                            \* 19  (string?)[]
     ZObject(<<F("a", 1), F("b", 3)>>),           \* 20  ObjectB {a: string, b: date}
     ZObject(<<F("a", 8), F("b", 9)>>),           \* 21  {a?: string, b?: date}
     ZObject(<<F("a", 8), F("b", 8)>>),           \* 22  one optional instance in two fields
     ZObject(<<F("a", 20), F("b", 10)>>),         \* 23  {a: ObjectB, b: date | null}
     ZUnion(<<1, 3>>),                            \* 24  string | date
     ZUnion(<<2, 3>>),                            \* 25  number | date
     ZUnion(<<27, 20>>),                          \* 26  ObjectA | ObjectB
     ZObject(<<F("a", 6)>>),                      \* 27  ObjectA {a: string}
     ZUnion(<<20, 27>>),                          \* 28  ObjectB | ObjectA
     Wrap("record", 3),                           \* 29  record(date)
     Wrap("record", 15),                          \* 30  record(number?)
     Wrap("record", 32),                          \* 31  record(number.optional().default(1))
     Dflt(15, Num(1, FALSE)),                     \* 32  number.optional().default(1)
     ZTuple(<<1, 3>>),                            \* 33  [string, date]
     Wrap("lazy", 3),                             \* 34  lazy(() => date)
     ZObject(<<F("a", 36), F("b", 7)>>),          \* 35  Tree {a?: lazy(() => Tree), b: date}
     Wrap("optional", 37),                        \* 36
     Wrap("lazy", 35),                            \* 37
     Wrap("lazy", 39),                            \* 38  L = lazy(() => array(L))
     Wrap("array", 38),                           \* 39
     Leaf("transform"),                           \* 40  a transform no codec recognises
     Tagged("pipe", 3, "bdate"),                  \* 41  a date pipe a codec may recognise
     ZObject(<<F("a", 0), F("b", 1)>>),           \* 42  {a: undefined, b: string}
     Tagged("string", 0, "ustr"),                 \* 43  a string a codec may recognise
     ZObject(<<F("a", 43), F("b", 41)>>),         \* 44  both recognisable nodes as fields
     ZObject(<<F("a", 11), F("b", 16)>>),         \* 45  defaults as fields
     ZObject(<<F("a", 12), F("b", 14)>>),         \* 46  optional+nullable fields
     ZObject(<<F("a", 21), F("b", 15)>>),         \* 47  optional fields one level down
     ZObject(<<F("a", 1), F("b", 6)>>),           \* 48  two string instances
     Wrap("optional", 10),                        \* 49  optional(nullable(date))
     Wrap("nullable", 8),                         \* 50  nullable(optional(string))
     Dflt(17, Num(1, TRUE)),                      \* 51  a default around an optional default
     ZUnion(<<43, 1>>),                           \* 52  recognisable string | string
     ZUnion(<<1, 43>>),                           \* 53  string | recognisable string
     ZObject(<<F("a", 6), F("b", 43)>>),          \* 54  ObjectC {a: string, b: recognisable}
     ZUnion(<<27, 54>>),                          \* 55  ObjectA | ObjectC
     ZUnion(<<54, 27>>),                          \* 56  ObjectC | ObjectA
     Wrap("record", 14),                          \* 57  record(number.optional().nullable())
     Wrap("record", 17),                          \* 58  record(number.default(1).optional())
     ZEnum(<<"x">>),                              \* 59  enum of one value
     ZEnum(<<"x", "y">>),                         \* 60  enum of two values
     ZEnum(<<"y", "x", "z">>),                    \* 61  enum of three values
     ZEnum(<<"z", "x", "w", "y">>),               \* 62  enum of four values
     ZObject(<<F("a", 59), F("b", 61)>>),         \* 63  enums as fields
     ZBrand(20),                                  \* 64  a branded ObjectB
     Wrap("array", 42),                           \* 65  an array of {a: undefined, b: string}
     Leaf("notaschema"),                          \* 66  a value that is no schema node
     ZObject(<<F("a", 66), F("b", 1)>>)           \* 67  {a: not a schema, b: string}
  >>

NodeIds == 1 .. Len(Heap)

\* schemas with a z.custom() in them (_def.typeName is "ZodCustom"); the custom
\* check accepts strings
CustomHeap ==
  << Leaf("custom"),                              \* 68  custom
     Wrap("optional", 68),                        \* 69  custom?
     ZUnion(<<1, 68>>),                           \* 70  string | custom
     ZUnion(<<68, 69>>),                          \* 71  custom | custom?
     ZObject(<<F("a", 68), F("b", 3)>>)           \* 72  {a: custom, b: date}
  >>

CustomIds == 68 .. 72

\* a chain of wrappers around the custom schema 68: Deep(k), the node 72 + k,
\* is k wrappers deep
Deep(k) == 72 + k
DeepIds == Deep(1) .. Deep(DeepLen)
DeepHeap ==
  [k \in 1 .. DeepLen |->
     Wrap(IF k % 2 = 0 THEN "optional" ELSE "nullable", IF k = 1 THEN 68 ELSE 71 + k)]

AllNodes == Heap \o CustomHeap \o DeepHeap

\* the schema object with identity s
N(s) == heap[s]

\* schema.shape[k]: the field's schema, 0 when the shape has no such key
RECURSIVE ShapeFrom(_, _, _)
ShapeFrom(shape, k, i) ==
  IF i > Len(shape) THEN 0
  ELSE IF shape[i].k = k THEN shape[i].n
  ELSE ShapeFrom(shape, k, i + 1)
ShapeGet(s, k) == ShapeFrom(N(s).shape, k, 1)

IsWrapper(s) == N(s).kind \in {"optional", "nullable", "default"}

(***************************************************************************)
(* The codec registry: a sequence of entries in lookup order.  An entry    *)
(* recognises the nodes that carry its tag.                                *)
(***************************************************************************)
CodecNames == {"bdate", "ustr"}

codecCheck(c, s) == N(s).tag = c

RECURSIVE FindFrom(_, _, _)
FindFrom(reg, s, i) ==
  IF i > Len(reg) THEN "none"
  ELSE IF codecCheck(reg[i], s) THEN reg[i]
  ELSE FindFrom(reg, s, i + 1)

findBaseCodec(s) == IF s = 0 THEN "none" ELSE FindFrom(registry, s, 1)

\* entry.toConvex(value, schema)
codecToConvex(c, v) ==
  CASE c = "bdate" -> IF v.t = "date" THEN GetTime(v) ELSE v
    [] c = "ustr" -> IF v.t = "str" THEN Str("enc:" \o v.s) ELSE v
    [] OTHER -> v

\* entry.fromConvex(value, schema)
codecFromConvex(c, v) ==
  CASE c = "bdate" -> IF v.t = "num" THEN NewDate(v) ELSE v
    [] c = "ustr" -> IF v.t = "str" /\ v.s = "enc:x" THEN Str("x") ELSE v
    [] OTHER -> v

RECURSIVE isDateSchema(_)
isDateSchema(s) ==
  IF s = 0 THEN FALSE
  ELSE IF N(s).kind = "date" THEN TRUE
  ELSE IF N(s).kind \in {"optional", "nullable", "pipe"} THEN isDateSchema(N(s).inner)
  ELSE FALSE

(***************************************************************************)
(* Zod's parse, as far as the codec depends on it: whether option.parse    *)
(* accepts a value.                                                        *)
(***************************************************************************)
PropOf(v, k) == IF k \in DOMAIN v.f THEN v.f[k] ELSE Undef

\* schema.parse(v) succeeds; with strict, objects are read as strict objects,
\* which reject keys their shape does not declare
RECURSIVE ZodParses(_, _, _)
ZodParses(s, v, strict) ==
  IF s = 0 THEN TRUE
  ELSE LET n == N(s) IN
    CASE n.kind = "string" -> v.t = "str"
      [] n.kind = "number" -> v.t = "num"
      [] n.kind = "date" -> v.t = "date"
      [] n.kind = "null" -> v.t = "null"
      [] n.kind \in {"any", "transform"} -> TRUE
      [] n.kind = "custom" -> v.t = "str"
      [] n.kind = "enum" ->
           v.t = "str" /\ \E i \in 1 .. Len(n.values) : n.values[i] = v.s
      [] n.kind \in {"optional", "default"} ->
           v.t = "undef" \/ ZodParses(n.inner, v, strict)
      [] n.kind = "nullable" -> v.t = "null" \/ ZodParses(n.inner, v, strict)
      [] n.kind \in {"lazy", "pipe"} -> ZodParses(n.inner, v, strict)
      [] n.kind = "array" ->
           v.t = "arr" /\ \A i \in 1 .. Len(v.items) : ZodParses(n.inner, v.items[i], strict)
      [] n.kind = "tuple" ->
           /\ v.t = "arr"
           /\ Len(v.items) = Len(n.items)
           /\ \A i \in 1 .. Len(n.items) : ZodParses(n.items[i], v.items[i], strict)
      [] n.kind = "object" ->
           /\ v.t = "obj"
           /\ strict => DOMAIN v.f \subseteq {n.shape[i].k : i \in 1 .. Len(n.shape)}
           /\ \A i \in 1 .. Len(n.shape) :
                ZodParses(n.shape[i].n, PropOf(v, n.shape[i].k), strict)
      [] n.kind = "record" ->
           v.t = "obj" /\ \A k \in DOMAIN v.f : ZodParses(n.inner, v.f[k], strict)
      [] n.kind = "union" ->
           \E i \in 1 .. Len(n.items) : ZodParses(n.items[i], v, strict)
      [] OTHER -> FALSE

\* option.parse(v) does not throw
ZodAccepts(s, v) == ZodParses(s, v, FALSE)

\* v has exactly the shape of s: accepted, and no key the schema does not declare
Conforms(s, v) == ZodParses(s, v, TRUE)

(***************************************************************************)
(* codec.ts                                                                *)
(***************************************************************************)
IndexKeys == <<"0", "1", "2", "3">>

\* typeof value === "object" for a non-null value
IsObjectLike(v) == v.t \in {"obj", "arr", "date"}

\* Object.entries(value), as a map from the own enumerable keys
EntriesOf(v) ==
  CASE v.t = "obj" -> v.f
    [] v.t = "arr" ->
         [k \in {IndexKeys[i] : i \in 1 .. Len(v.items)} |->
            v.items[CHOOSE i \in 1 .. Len(v.items) : IndexKeys[i] = k]]
    [] OTHER -> NoFields

\* a loop that copies every key, the undefined-valued ones too
DefinedKeys_all(e) == DOMAIN e

\* the keys an encoder keeps: those whose value is not undefined
DefinedKeys(e) == {k \in DOMAIN e : e[k].t # "undef"}

\* a conversion of the top level only
basicToConvex_shallow(v) ==
  CASE v.t = "date" -> GetTime(v)
    [] v.t = "obj" -> Obj([k \in DefinedKeys(v.f) |-> v.f[k]])
    [] OTHER -> v

RECURSIVE basicToConvex(_)
basicToConvex(v) ==
  CASE v.t = "undef" -> Undef
    [] v.t = "null" -> Null
    [] v.t = "date" -> GetTime(v)
    [] v.t = "arr" -> Arr([i \in 1 .. Len(v.items) |-> basicToConvex(v.items[i])])
    [] v.t = "obj" -> Obj([k \in DefinedKeys(v.f) |-> basicToConvex(v.f[k])])
    [] OTHER -> v

\* a loop that keeps the last option whose parse accepts the value
RECURSIVE FirstParsing_last(_, _, _)
FirstParsing_last(options, v, i) ==
  IF i > Len(options) THEN 0
  ELSE IF FirstParsing_last(options, v, i + 1) # 0 THEN FirstParsing_last(options, v, i + 1)
  ELSE IF ZodAccepts(options[i], v) THEN i
  ELSE 0

\* the index of the first option whose parse accepts the value, 0 if none does
RECURSIVE FirstParsing(_, _, _)
FirstParsing(options, v, i) ==
  IF i > Len(options) THEN 0
  ELSE IF ZodAccepts(options[i], v) THEN i
  ELSE FirstParsing(options, v, i + 1)

\* a passthrough that hands the value back as it came
defaultPassthrough_raw(v) == v

\* codec.ts:142-143  the default passthrough
defaultPassthrough(v) == basicToConvex(v)

\* a field loop that copies a field the shape does not declare as it is
undeclaredField_raw(v) == v

\* codec.ts:111  a field the shape does not declare: basicToConvex(v)
undeclaredField(v) == basicToConvex(v)

\* a record loop that copies every entry
recordKeys_all(e) == DOMAIN e

\* codec.ts:134-137  the entries the record loop copies: v !== undefined
recordKeys(e) == DefinedKeys(e)

RECURSIVE schemaToConvex(_, _)
schemaToConvex(v, s) ==
  IF v.t \in {"undef", "null"} THEN v
  ELSE IF findBaseCodec(s) # "none" THEN codecToConvex(findBaseCodec(s), v)
  ELSE IF s = 0 THEN basicToConvex(v)
  ELSE LET n == N(s) IN
    IF IsWrapper(s) THEN schemaToConvex(v, n.inner)
    ELSE IF n.kind = "date" /\ v.t = "date" THEN GetTime(v)
    ELSE IF n.kind = "array" THEN
      IF v.t # "arr" THEN v
      ELSE Arr([i \in 1 .. Len(v.items) |-> schemaToConvex(v.items[i], n.inner)])
    ELSE IF n.kind = "object" THEN
      IF ~IsObjectLike(v) THEN v
      ELSE LET e == EntriesOf(v) IN
        Obj([k \in DefinedKeys(e) |->
               IF ShapeGet(s, k) # 0 THEN schemaToConvex(e[k], ShapeGet(s, k))
               ELSE undeclaredField(e[k])])
    ELSE IF n.kind = "union" /\ FirstParsing(n.items, v, 1) # 0 THEN
      schemaToConvex(v, n.items[FirstParsing(n.items, v, 1)])
    ELSE IF n.kind = "record" THEN
      IF ~IsObjectLike(v) THEN v
      ELSE LET e == EntriesOf(v) IN
        Obj([k \in recordKeys(e) |-> schemaToConvex(e[k], n.inner)])
    ELSE defaultPassthrough(v)

\* codec.ts:117-128  the option whose schemaToConvex(value, option) a call on
\* schema s returns, 0 when the call does not reach the loop or leaves it empty-handed
unionBranch(v, s) ==
  IF v.t \in {"undef", "null"} \/ s = 0 \/ findBaseCodec(s) # "none" THEN 0
  ELSE IF N(s).kind = "union" THEN FirstParsing(N(s).items, v, 1)
  ELSE 0

\* a schema passed as a JavaScript argument
SchemaArg(s) == [t |-> "schema", id |-> s]

Falsy(x) == x.t \in {"undef", "null"} \/ (x.t = "schema" /\ x.id = 0)

\* toConvexJS(schema?, value?) called with argc arguments
toConvexJS(a1, a2, argc) ==
  IF Falsy(a1) \/ argc = 1 THEN basicToConvex(a1)
  ELSE schemaToConvex(a2, a1.id)

RECURSIVE fromConvexJS(_, _)

\* a loop that keeps the last option whose decoded value its own parse accepts
RECURSIVE FirstDecoding_last(_, _, _)
FirstDecoding_last(options, v, i) ==
  IF i > Len(options) THEN 0
  ELSE IF FirstDecoding_last(options, v, i + 1) # 0 THEN FirstDecoding_last(options, v, i + 1)
  ELSE IF ZodAccepts(options[i], fromConvexJS(v, options[i])) THEN i
  ELSE 0

\* the index of the first option whose decoded value its own parse accepts
RECURSIVE FirstDecoding(_, _, _)
FirstDecoding(options, v, i) ==
  IF i > Len(options) THEN 0
  ELSE IF ZodAccepts(options[i], fromConvexJS(v, options[i])) THEN i
  ELSE FirstDecoding(options, v, i + 1)

fromConvexJS(v, s) ==
  IF v.t \in {"undef", "null"} THEN v
  ELSE IF findBaseCodec(s) # "none" THEN codecFromConvex(findBaseCodec(s), v)
  ELSE IF s = 0 THEN v
  ELSE LET n == N(s) IN
    IF IsWrapper(s) THEN fromConvexJS(v, n.inner)
    ELSE IF n.kind = "date" /\ v.t = "num" THEN NewDate(v)
    ELSE IF isDateSchema(s) /\ v.t = "num" THEN NewDate(v)
    ELSE IF n.kind = "array" THEN
      IF v.t # "arr" THEN v
      ELSE Arr([i \in 1 .. Len(v.items) |-> fromConvexJS(v.items[i], n.inner)])
    ELSE IF n.kind = "object" THEN
      IF ~IsObjectLike(v) THEN v
      ELSE LET e == EntriesOf(v) IN
        Obj([k \in DOMAIN e |->
               IF ShapeGet(s, k) # 0 THEN fromConvexJS(e[k], ShapeGet(s, k))
               ELSE e[k]])
    ELSE IF n.kind = "union" /\ FirstDecoding(n.items, v, 1) # 0 THEN
      fromConvexJS(v, n.items[FirstDecoding(n.items, v, 1)])
    ELSE IF n.kind = "record" THEN
      IF ~IsObjectLike(v) THEN v
      ELSE LET e == EntriesOf(v) IN
        Obj([k \in DOMAIN e |-> fromConvexJS(e[k], n.inner)])
    ELSE v

(***************************************************************************)
(* Convex validators (convex/values): every validator carries its kind and *)
(* its isOptional flag; v.optional(x) is x.asOptional(), a fresh validator *)
(* of the same kind flagged "optional".  _zodDefault is the side-channel   *)
(* property the mapper attaches; Undef stands for no such property.        *)
(***************************************************************************)
VBase(kind) == [kind |-> kind, isOptional |-> "required", zodDefault |-> Undef]
VAny == VBase("any")
VString == VBase("string")
VFloat64 == VBase("float64")
VNull == VBase("null")
VBytes == VBase("bytes")
VLiteral(x) == [kind |-> "literal", isOptional |-> "required", zodDefault |-> Undef, value |-> x]
VArray(e) == [kind |-> "array", isOptional |-> "required", zodDefault |-> Undef, element |-> e]
VObject(fs) == [kind |-> "object", isOptional |-> "required", zodDefault |-> Undef, fields |-> fs]
VUnion(ms) == [kind |-> "union", isOptional |-> "required", zodDefault |-> Undef, members |-> ms]
VRecord(k, x) ==
  [kind |-> "record", isOptional |-> "required", zodDefault |-> Undef, key |-> k, value |-> x]
\* what the model reports when the recursion is deeper than MaxDepth
VOverflow == VBase("overflow")

vOptional(x) == [x EXCEPT !.isOptional = "optional", !.zodDefault = Undef]

\* entry.toValidator(schema)
codecToValidator(c) ==
  CASE c = "bdate" -> VFloat64
    [] c = "ustr" -> VBytes
    [] OTHER -> VAny

(***************************************************************************)
(* mapping/core.ts                                                         *)
(***************************************************************************)
\* a mapper that never recognises a node it is already mapping
visitedHas_never(visited, z) == FALSE

\* core.ts:31  visited.has(zodValidator)
visitedHas(visited, z) == z \in visited

\* core.ts:36-63  the default and optional wrappers peeled off the node
Peeled(actual, isOptional, hasDefault, defaultValue) ==
  [actual |-> actual, isOptional |-> isOptional, hasDefault |-> hasDefault,
   defaultValue |-> defaultValue]

\* core.ts:49-62  inside the optional: a default under it is peeled off too
unwrapOptional(a, hasDefault, defaultValue) ==
  IF a # 0 /\ N(a).kind = "default" THEN Peeled(N(a).inner, TRUE, TRUE, N(a).dflt)
  ELSE Peeled(a, TRUE, hasDefault, defaultValue)

\* core.ts:48-63  what is left once an outer default is gone
unwrapInner(a, hasDefault, defaultValue) ==
  IF a # 0 /\ N(a).kind = "optional" THEN unwrapOptional(N(a).inner, hasDefault, defaultValue)
  ELSE Peeled(a, FALSE, hasDefault, defaultValue)

Unwrapped(z) ==
  IF N(z).kind = "default" THEN unwrapInner(N(z).inner, TRUE, N(z).dflt)
  ELSE unwrapInner(z, FALSE, Undef)

\* a mapper that forgets the recorded optionality
applyOptional_dropped(isOptional, convexValidator) == convexValidator

\* core.ts:293
applyOptional(isOptional, convexValidator) ==
  IF isOptional THEN vOptional(convexValidator) ELSE convexValidator

\* a mapper that takes a defaulted schema for an optional one
attachDefault_optional(hasDefault, defaultValue, finalValidator) ==
  IF hasDefault
  THEN [finalValidator EXCEPT !.isOptional = "optional", !.zodDefault = defaultValue]
  ELSE finalValidator

\* core.ts:296-298
attachDefault(hasDefault, defaultValue, finalValidator) ==
  IF hasDefault THEN [finalValidator EXCEPT !.zodDefault = defaultValue]
  ELSE finalValidator

TupleKeys == <<"_0", "_1", "_2", "_3">>

Ret(x, visited) == [v |-> x, visited |-> visited]

RECURSIVE zodToConvexInternal(_, _, _)

\* the validators of a sequence of nodes, mapped left to right with one visited set
RECURSIVE MapAll(_, _, _, _, _)
MapAll(ids, i, acc, visited, depth) ==
  IF i > Len(ids) THEN [vs |-> acc, visited |-> visited]
  ELSE LET r == zodToConvexInternal(ids[i], visited, depth) IN
    MapAll(ids, i + 1, Append(acc, r.v), r.visited, depth)

\* core.ts:129  value && value instanceof z.ZodType
isSchemaValue(n) == n # 0 /\ N(n).kind # "notaschema"

\* core.ts:123-138  case 'object': keys whose value is no schema are skipped
objectCase(actual, visited, depth) ==
  LET shape == N(actual).shape
      kept == SelectSeq(shape, LAMBDA f : isSchemaValue(f.n))
      r == MapAll([i \in 1 .. Len(kept) |-> kept[i].n], 1, <<>>, visited, depth)
  IN Ret(VObject([k \in {kept[i].k : i \in 1 .. Len(kept)} |->
                    r.vs[CHOOSE i \in 1 .. Len(kept) : kept[i].k = k]]),
         r.visited)

\* core.ts:216-233  case 'tuple'
tupleCase(actual, visited, depth) ==
  LET items == N(actual).items
      r == MapAll(items, 1, <<>>, visited, depth)
  IN Ret(VObject([k \in {TupleKeys[i] : i \in 1 .. Len(items)} |->
                    r.vs[CHOOSE i \in 1 .. Len(items) : TupleKeys[i] = k]]),
         r.visited)

\* handlers: convertUnionType
convertUnionType(actual, visited, depth) ==
  LET options == N(actual).items IN
    IF Len(options) = 0 THEN Ret(VAny, visited)
    ELSE IF Len(options) = 1 THEN zodToConvexInternal(options[1], visited, depth)
    ELSE LET r == MapAll(options, 1, <<>>, visited, depth) IN Ret(VUnion(r.vs), r.visited)

\* handlers: convertNullableType; its isOptional result is the third field
convertNullableType(actual, visited, depth) ==
  LET inner == N(actual).inner IN
    IF inner = 0 THEN [v |-> VAny, visited |-> visited, isOptional |-> FALSE]
    ELSE IF N(inner).kind = "optional" THEN
      LET r == zodToConvexInternal(N(inner).inner, visited, depth) IN
        [v |-> VUnion(<<r.v, VNull>>), visited |-> r.visited, isOptional |-> TRUE]
    ELSE
      LET r == zodToConvexInternal(inner, visited, depth) IN
        [v |-> VUnion(<<r.v, VNull>>), visited |-> r.visited, isOptional |-> FALSE]

\* handlers: convertRecordType
convertRecordType(actual, visited, depth) ==
  LET valueType == N(actual).inner IN
    IF valueType = 0 THEN Ret(VRecord(VString, VAny), visited)
    ELSE
      LET isDefault == N(valueType).kind = "default"
          isZodOptional ==
            \/ N(valueType).kind = "optional"
            \/ isDefault /\ N(N(valueType).inner).kind = "optional"
      IN
        IF isZodOptional THEN
          LET innerFromDefault == N(valueType).inner
              innerType ==
                IF isDefault THEN
                  IF N(innerFromDefault).kind = "optional" THEN N(innerFromDefault).inner
                  ELSE innerFromDefault
                ELSE N(valueType).inner
              r == zodToConvexInternal(innerType, visited, depth)
              unionValidator == VUnion(<<r.v, VNull>>)
          IN Ret(VRecord(VString,
                         IF isDefault
                         THEN [unionValidator EXCEPT !.zodDefault = N(valueType).dflt]
                         ELSE unionValidator),
                 r.visited)
        ELSE
          LET r == zodToConvexInternal(valueType, visited, depth) IN
            Ret(VRecord(VString, r.v), r.visited)

\* core.ts:193-194  metadata.brand && metadata.originalSchema: the original
\* schema of a branded node, 0 when the node has no such metadata
brandOriginal(actual) == N(actual).orig

\* a case that knows the registry only
transformCase_registryOnly(actual, visited, depth) ==
  IF findBaseCodec(actual) # "none" THEN Ret(codecToValidator(findBaseCodec(actual)), visited)
  ELSE Ret(VAny, visited)

\* core.ts:185-203  case 'transform' / 'pipe'
transformCase(actual, visited, depth) ==
  IF findBaseCodec(actual) # "none" THEN Ret(codecToValidator(findBaseCodec(actual)), visited)
  ELSE IF brandOriginal(actual) # 0
    THEN zodToConvexInternal(brandOriginal(actual), visited, depth)
  ELSE Ret(VAny, visited)

\* a conversion that makes a union of every enum, a single value included
convertEnumType_union(actual) ==
  VUnion([i \in 1 .. Len(N(actual).values) |-> VLiteral(N(actual).values[i])])

\* handlers: convertEnumType
convertEnumType(actual) ==
  LET values == N(actual).values IN
    IF Len(values) = 1 THEN VLiteral(values[1])
    ELSE IF Len(values) = 2 THEN VUnion(<<VLiteral(values[1]), VLiteral(values[2])>>)
    ELSE VUnion([i \in 1 .. Len(values) |-> VLiteral(values[i])])

\* core.ts:84-289  the switch on def.type; the result carries isOptional when
\* the nullable case sets it
dispatch(actual, visited, depth) ==
  LET kind == N(actual).kind
      plain(r) == [v |-> r.v, visited |-> r.visited, isOptional |-> FALSE]
      element == zodToConvexInternal(N(actual).inner, visited, depth)
  IN
    CASE kind = "string" -> plain(Ret(VString, visited))
      [] kind = "number" -> plain(Ret(VFloat64, visited))
      [] kind = "date" -> plain(Ret(VFloat64, visited))
      [] kind = "null" -> plain(Ret(VNull, visited))
      [] kind = "array" ->
           IF N(actual).inner # 0 THEN plain(Ret(VArray(element.v), element.visited))
           ELSE plain(Ret(VArray(VAny), visited))
      [] kind = "object" -> plain(objectCase(actual, visited, depth))
      [] kind = "union" -> plain(convertUnionType(actual, visited, depth))
      [] kind = "enum" -> plain(Ret(convertEnumType(actual), visited))
      [] kind = "record" -> plain(convertRecordType(actual, visited, depth))
      [] kind \in {"transform", "pipe"} -> plain(transformCase(actual, visited, depth))
      [] kind = "nullable" -> convertNullableType(actual, visited, depth)
      [] kind = "tuple" ->
           IF Len(N(actual).items) > 0 THEN plain(tupleCase(actual, visited, depth))
           ELSE plain(Ret(VObject(NoFields), visited))
      [] kind = "lazy" ->
           IF N(actual).inner # 0
           THEN plain(zodToConvexInternal(N(actual).inner, visited, depth))
           ELSE plain(Ret(VAny, visited))
      [] OTHER -> plain(Ret(VAny, visited))

\* core.ts:21-301; depth counts the nested calls
zodToConvexInternal(z, visited, depth) ==
  IF depth > MaxDepth THEN Ret(VOverflow, visited)
  ELSE IF z = 0 THEN Ret(VAny, visited)
  ELSE IF visitedHas(visited, z) THEN Ret(VAny, visited)
  ELSE
    LET u == Unwrapped(z)
        d == dispatch(u.actual, visited \cup {z}, depth + 1)
        finalValidator == applyOptional(u.isOptional \/ d.isOptional, d.v)
    IN Ret(attachDefault(u.hasDefault, u.defaultValue, finalValidator), d.visited)

\* core.ts:303-315, for a schema argument
zodToConvex(z) == zodToConvexInternal(z, {}, 0).v

\* core.ts:317-330, for the shape of the object schema z: every field is mapped
\* with a visited set of its own
zodToConvexFields(z) ==
  LET fields == N(z).shape IN
    [k \in {fields[i].k : i \in 1 .. Len(fields)} |->
       zodToConvexInternal(ShapeGet(z, k), {}, 0).v]

(***************************************************************************)
(* Convex's own check of a wire value against a validator.                 *)
(***************************************************************************)
RECURSIVE IsWire(_)
IsWire(v) ==
  CASE v.t \in {"undef", "date"} -> FALSE
    [] v.t = "arr" -> \A i \in 1 .. Len(v.items) : IsWire(v.items[i])
    [] v.t = "obj" -> \A k \in DOMAIN v.f : IsWire(v.f[k])
    [] OTHER -> TRUE

RECURSIVE ConvexAccepts(_, _)
ConvexAccepts(x, y) ==
  CASE x.kind = "any" -> TRUE
    [] x.kind = "string" -> y.t = "str"
    [] x.kind = "float64" -> y.t = "num"
    [] x.kind = "null" -> y.t = "null"
    [] x.kind = "literal" -> y.t = "str" /\ y.s = x.value
    [] x.kind = "array" ->
         y.t = "arr" /\ \A i \in 1 .. Len(y.items) : ConvexAccepts(x.element, y.items[i])
    [] x.kind = "object" ->
         /\ y.t = "obj"
         /\ DOMAIN y.f \subseteq DOMAIN x.fields
         /\ \A k \in DOMAIN x.fields :
              IF k \in DOMAIN y.f THEN ConvexAccepts(x.fields[k], y.f[k])
              ELSE x.fields[k].isOptional = "optional"
    [] x.kind = "union" -> \E i \in 1 .. Len(x.members) : ConvexAccepts(x.members[i], y)
    [] x.kind = "record" ->
         y.t = "obj" /\ \A k \in DOMAIN y.f : ConvexAccepts(x.value, y.f[k])
    [] OTHER -> FALSE

(***************************************************************************)
(* The inputs: every schema of the heap, a bounded universe of values, and *)
(* the registries a consumer may have set up before the first call.        *)
(***************************************************************************)
Numbers == {Num(i, h) : i \in 1 .. MaxNum, h \in BOOLEAN}
Dates == {DateV(m) : m \in 1 .. MaxMs}
Atoms == {Undef, Null, Str("x")} \cup Numbers \cup Dates

Keys == {"a", "b"}

\* the objects with keys among a, b and atoms as values
FlatObjects ==
  {Obj([k \in ks |-> f[k]]) : <<ks, f>> \in (SUBSET Keys) \X [Keys -> Atoms]}

RECURSIVE SeqsUpTo(_, _)
SeqsUpTo(S, n) ==
  IF n = 0 THEN {<<>>}
  ELSE SeqsUpTo(S, n - 1) \cup {Append(q, x) : <<q, x>> \in {q \in SeqsUpTo(S, n - 1) : Len(q) = n - 1} \X S}

Arrays == {Arr(q) : q \in SeqsUpTo(Atoms, MaxLen)}

InnerObjects ==
  {Obj([k \in ks |-> f[k]]) :
     <<ks, f>> \in (SUBSET Keys) \X [Keys -> {Str("x"), Num(1, TRUE)} \cup Dates]}

NestedObjects ==
  {Obj([k \in ks |-> IF k = "a" THEN o ELSE x]) :
     <<ks, o, x>> \in {{"a"}, {"a", "b"}} \X InnerObjects \X ({Null, Num(1, FALSE)} \cup Dates)}

NestedArrays == {Arr(<<Arr(<<>>)>>), Arr(<<Arr(<<>>), Arr(<<Arr(<<>>)>>)>>)}

\* objects with a third key c, which no object schema of the heap declares
ExtraObjects ==
  {Obj([k \in ks \cup {"c"} |-> IF k = "a" THEN Str("x") ELSE IF k = "b" THEN d ELSE x]) :
     <<ks, d, x>> \in {{"a"}, {"a", "b"}} \X Dates
                       \X ({Undef, Str("x"), Obj([k \in {"a"} |-> Undef])} \cup Dates
                             \cup {Obj([k \in {"a"} |-> y]) : y \in Dates})}

Values ==
  Atoms \cup FlatObjects \cup Arrays \cup NestedObjects \cup NestedArrays \cup ExtraObjects

Registries == {<<>>, <<"bdate">>, <<"ustr">>, <<"bdate", "ustr">>}

\* no call of a wrapped handler is under way
NoError == [t |-> "none"]
NoCall ==
  /\ returns = 0
  /\ parsed = Undef
  /\ raw = Undef
  /\ validated = Undef
  /\ thrown = NoError
  /\ err = NoError
  /\ steps = <<>>

EmptyCache == [yes |-> {}, no |-> {}]

\* nothing checked, nothing registered, one call
NoModule ==
  /\ customCheckCache = EmptyCache
  /\ hasCustom = FALSE
  /\ registered = Undef
  /\ cur = 1
  /\ calls = <<>>
  /\ others = Undef

(***************************************************************************)
(* Spec: one encode / decode exchange of the codec on a schema, a value    *)
(* and a registry.                                                         *)
(***************************************************************************)
Init ==
  /\ heap = AllNodes
  /\ schema \in NodeIds
  /\ value \in Values
  /\ registry \in {<<>>, <<"bdate", "ustr">>}
  /\ pc = "start"
  /\ enc = Undef
  /\ dec = Undef
  /\ val = VAny
  /\ branch = 0
  /\ NoCall
  /\ NoModule

\* convexCodec(schema).encode(value)
Encode ==
  /\ pc = "start"
  /\ enc' = toConvexJS(SchemaArg(schema), value, 2)
  /\ branch' = unionBranch(value, schema)
  /\ pc' = "encoded"
  /\ UNCHANGED modVars
  /\ UNCHANGED <<schema, value, heap, registry, dec, val>>
  /\ UNCHANGED callVars

\* convexCodec(schema).decode(encoded)
Decode ==
  /\ pc = "encoded"
  /\ dec' = fromConvexJS(enc, schema)
  /\ pc' = "decoded"
  /\ UNCHANGED modVars
  /\ UNCHANGED <<schema, value, heap, registry, enc, val, branch>>
  /\ UNCHANGED callVars

\* convexCodec(schema).decode(value) of a wire value
DecodeWire ==
  /\ pc = "start"
  /\ IsWire(value)
  /\ dec' = fromConvexJS(value, schema)
  /\ pc' = "wdecoded"
  /\ UNCHANGED modVars
  /\ UNCHANGED <<schema, value, heap, registry, enc, val, branch>>
  /\ UNCHANGED callVars

\* convexCodec(schema).encode(decoded)
Reencode ==
  /\ pc = "wdecoded"
  /\ enc' = toConvexJS(SchemaArg(schema), dec, 2)
  /\ branch' = unionBranch(dec, schema)
  /\ pc' = "reencoded"
  /\ UNCHANGED modVars
  /\ UNCHANGED <<schema, value, heap, registry, dec, val>>
  /\ UNCHANGED callVars

\* toConvexJS(value), the call with a value only
EncodeBasic ==
  /\ pc = "start"
  /\ enc' = toConvexJS(value, Undef, 1)
  /\ pc' = "basic"
  /\ UNCHANGED modVars
  /\ UNCHANGED <<schema, value, heap, registry, dec, val, branch>>
  /\ UNCHANGED callVars

\* toConvexJS(undefined, value), the call with two arguments and no schema
EncodeNoSchema ==
  /\ pc = "start"
  /\ enc' = toConvexJS(Undef, value, 2)
  /\ pc' = "noschema"
  /\ UNCHANGED modVars
  /\ UNCHANGED <<schema, value, heap, registry, dec, val, branch>>
  /\ UNCHANGED callVars

Next == Encode \/ Decode \/ DecodeWire \/ Reencode \/ EncodeBasic \/ EncodeNoSchema

Spec == Init /\ [][Next]_vars

(***************************************************************************)
(* SpecMap: one zodToConvex call on a schema and a registry.               *)
(***************************************************************************)
InitMap ==
  /\ heap = AllNodes
  /\ schema \in NodeIds
  /\ value = Undef
  /\ registry \in Registries
  /\ pc = "start"
  /\ enc = Undef
  /\ dec = Undef
  /\ val = VAny
  /\ branch = 0
  /\ NoCall
  /\ NoModule

Map ==
  /\ pc = "start"
  /\ val' = zodToConvex(schema)
  /\ pc' = "mapped"
  /\ UNCHANGED modVars
  /\ UNCHANGED <<schema, value, heap, registry, enc, dec, branch>>
  /\ UNCHANGED callVars

\* zodToConvexFields(schema) of an object schema; the result is a plain map
\* from field names to validators
MapFields ==
  /\ pc = "start"
  /\ N(schema).kind = "object"
  /\ val' = [kind |-> "fields", fields |-> zodToConvexFields(schema)]
  /\ pc' = "fieldsMapped"
  /\ UNCHANGED modVars
  /\ UNCHANGED <<schema, value, heap, registry, enc, dec, branch>>
  /\ UNCHANGED callVars

NextMap == Map \/ MapFields

SpecMap == InitMap /\ [][NextMap]_vars

(***************************************************************************)
(* builders.ts: the handler zQuery, zMutation and zAction register.  The   *)
(* three handlers are the same code; one call is followed from the wire    *)
(* arguments to the returned value or the error the call fails with.       *)
(***************************************************************************)
\* what schema.parse(v) returns for a value it accepts: undeclared keys of an
\* object are stripped, a default stands in for undefined, a union gives the
\* output of its first accepting option
RECURSIVE ZodOutput(_, _)
ZodOutput(s, v) ==
  IF s = 0 THEN v
  ELSE LET n == N(s) IN
    CASE n.kind = "default" -> IF v.t = "undef" THEN n.dflt ELSE ZodOutput(n.inner, v)
      [] n.kind = "optional" -> IF v.t = "undef" THEN v ELSE ZodOutput(n.inner, v)
      [] n.kind = "nullable" -> IF v.t = "null" THEN v ELSE ZodOutput(n.inner, v)
      [] n.kind \in {"lazy", "pipe"} -> ZodOutput(n.inner, v)
      [] n.kind = "array" -> Arr([i \in 1 .. Len(v.items) |-> ZodOutput(n.inner, v.items[i])])
      [] n.kind = "tuple" ->
           Arr([i \in 1 .. Len(v.items) |-> ZodOutput(n.items[i], v.items[i])])
      [] n.kind = "object" ->
           LET out == [k \in {n.shape[i].k : i \in 1 .. Len(n.shape)} |->
                         ZodOutput(ShapeGet(s, k), PropOf(v, k))]
           IN Obj([k \in {x \in DOMAIN out : x \in DOMAIN v.f \/ out[x].t # "undef"} |-> out[k]])
      [] n.kind = "record" -> Obj([k \in DOMAIN v.f |-> ZodOutput(n.inner, v.f[k])])
      [] n.kind = "union" -> ZodOutput(n.items[FirstParsing(n.items, v, 1)], v)
      [] OTHER -> v

\* an issue of a ZodError: the path to the offending value (object keys and
\* array indexes), the issue code and the message
Key(k) == [key |-> k]
Idx(i) == [index |-> i]
Issue(path, code) == [path |-> path, code |-> code, message |-> "Invalid input"]

\* the order in which the keys of a record are visited
KeyOrder == <<"a", "b", "c">>

\* the issues schema.parse(v) reports for a value the schema rejects, in the
\* order zod reports them: fields in shape order, items in index order
RECURSIVE ZodIssues(_, _, _)
RECURSIVE IssuesOfFields(_, _, _, _)
RECURSIVE IssuesOfItems(_, _, _, _, _)
RECURSIVE IssuesOfRecord(_, _, _, _)
ZodIssues(s, v, path) ==
  IF s = 0 \/ ZodAccepts(s, v) THEN <<>>
  ELSE LET n == N(s) IN
    CASE n.kind \in {"optional", "default", "nullable", "lazy", "pipe"} ->
           ZodIssues(n.inner, v, path)
      [] n.kind = "array" /\ v.t = "arr" -> IssuesOfItems(s, v, path, 1, FALSE)
      [] n.kind = "tuple" /\ v.t = "arr" ->
           IF Len(v.items) > Len(n.items) THEN <<Issue(path, "too_big")>>
           ELSE IF Len(v.items) < Len(n.items) THEN <<Issue(path, "too_small")>>
           ELSE IssuesOfItems(s, v, path, 1, TRUE)
      [] n.kind = "object" /\ v.t = "obj" -> IssuesOfFields(s, v, path, 1)
      [] n.kind = "record" /\ v.t = "obj" -> IssuesOfRecord(s, v, path, 1)
      [] n.kind = "union" -> <<Issue(path, "invalid_union")>>
      [] n.kind = "enum" -> <<Issue(path, "invalid_value")>>
      [] n.kind = "custom" -> <<Issue(path, "custom")>>
      [] OTHER -> <<Issue(path, "invalid_type")>>

IssuesOfFields(s, v, path, i) ==
  IF i > Len(N(s).shape) THEN <<>>
  ELSE ZodIssues(N(s).shape[i].n, PropOf(v, N(s).shape[i].k), Append(path, Key(N(s).shape[i].k)))
         \o IssuesOfFields(s, v, path, i + 1)

IssuesOfItems(s, v, path, i, tuple) ==
  IF i > Len(v.items) THEN <<>>
  ELSE ZodIssues(IF tuple THEN N(s).items[i] ELSE N(s).inner, v.items[i], Append(path, Idx(i - 1)))
         \o IssuesOfItems(s, v, path, i + 1, tuple)

IssuesOfRecord(s, v, path, i) ==
  IF i > Len(KeyOrder) THEN <<>>
  ELSE (IF KeyOrder[i] \in DOMAIN v.f
        THEN ZodIssues(N(s).inner, v.f[KeyOrder[i]], Append(path, Key(KeyOrder[i])))
        ELSE <<>>)
         \o IssuesOfRecord(s, v, path, i + 1)

\* errors: a z.ZodError with its issues, an error of the user's own, and the
\* ConvexError the wrappers throw, which carries the formatted issues as its data
ZodError(issues) == [t |-> "ZodError", issues |-> issues]
UserError == [t |-> "Error"]
ConvexError(data) == [t |-> "ConvexError", data |-> data]

\* String(segment) of a path segment
SegString(seg) == IF "key" \in DOMAIN seg THEN seg.key ELSE IndexKeys[seg.index + 1]

\* a join that keeps the last segment only
joinPath_last(path) == IF path = <<>> THEN "" ELSE SegString(path[Len(path)])

\* utils.ts:30-32  issue.path.join(".")
RECURSIVE joinPath(_)
joinPath(path) ==
  IF path = <<>> THEN ""
  ELSE IF Len(path) = 1 THEN SegString(path[1])
  ELSE SegString(path[1]) \o "." \o joinPath(Tail(path))

\* utils.ts:29-35  the issues of the error, mapped one by one
formatIssues(error) ==
  [i \in 1 .. Len(error.issues) |->
     [path |-> joinPath(error.issues[i].path),
      code |-> error.issues[i].code,
      message |-> error.issues[i].message]]

\* a formatter that tags every error as an argument error
formatZodIssues_args(error, context) ==
  [error |-> "ZodValidationError", context |-> "args", issues |-> formatIssues(error)]

\* utils.ts:22-39, without the flattened snapshot
formatZodIssues(error, context) ==
  [error |-> "ZodValidationError", context |-> context, issues |-> formatIssues(error)]

\* a handler that throws whatever it caught
handleZodValidationError_rethrow(e, context) == e

\* utils.ts:43-51: what the function throws
handleZodValidationError(e, context) ==
  IF e.t = "ZodError" THEN ConvexError(formatZodIssues(e, context)) ELSE e

\* a wrapper that goes on while the user handler is still pending
handlerAwaited_eager(p) == p \in {"awaiting", "settled"}

\* await handler(ctx, parsed): the wrapper goes on once the handler has resolved
handlerAwaited(p) == p = "settled"

Step(name) == steps' = Append(steps, name)

\* the argument schemas, the wire arguments, the returns schemas and the
\* outcomes of the user handler the calls are drawn from
ArgSchemas == {20, 21}
WireArgs == {v \in FlatObjects : IsWire(v)}
ReturnsSchemas == {0, 3, 5, 18, 19, 20, 21, 23, 24, 26, 29, 30, 33, 34, 40, 44, 45}
HandlerThrows == {UserError, ZodError(<<Issue(<<Key("a")>>, "custom")>>)}

InitCall ==
  /\ heap = AllNodes
  /\ schema \in ArgSchemas
  /\ value \in WireArgs
  /\ registry \in {<<>>, <<"bdate", "ustr">>}
  /\ returns \in ReturnsSchemas
  /\ pc = "start"
  /\ enc = Undef
  /\ dec = Undef
  /\ val = VAny
  /\ branch = 0
  /\ parsed = Undef
  /\ raw = Undef
  /\ validated = Undef
  /\ thrown = NoError
  /\ err = NoError
  /\ steps = <<>>
  /\ NoModule

\* the ways schema.parse(v) can end: with its output when the schema accepts
\* the value, with a ZodError when it does not, and with whatever a transform
\* function of the schema throws
ParseOutcomes(s, v) ==
  IF ~ZodAccepts(s, v) THEN {[ok |-> FALSE, e |-> ZodError(ZodIssues(s, v, <<>>))]}
  ELSE {[ok |-> TRUE, out |-> ZodOutput(s, v)]}
         \cup (IF N(s).kind = "transform" THEN {[ok |-> FALSE, e |-> UserError]} ELSE {})

\* builders.ts:474
DecodeArgs ==
  /\ pc = "start"
  /\ dec' = fromConvexJS(value, schema)
  /\ pc' = "decodedArgs"
  /\ Step("decode")
  /\ UNCHANGED modVars
  /\ UNCHANGED <<schema, value, heap, registry, enc, val, branch>>
  /\ UNCHANGED <<returns, parsed, raw, validated, thrown, err>>

\* builders.ts:475-480
ParseArgs ==
  /\ pc = "decodedArgs"
  /\ \E o \in ParseOutcomes(schema, dec) :
       IF o.ok
       THEN /\ parsed' = o.out
            /\ pc' = "parsedArgs"
            /\ UNCHANGED <<thrown, err>>
       ELSE /\ thrown' = o.e
            /\ err' = handleZodValidationError(o.e, "args")
            /\ pc' = "failed"
            /\ parsed' = parsed
  /\ Step("parse args")
  /\ UNCHANGED modVars
  /\ UNCHANGED <<schema, value, heap, registry, enc, dec, val, branch>>
  /\ UNCHANGED <<returns, raw, validated>>

\* builders.ts:481, the call of the user handler
InvokeHandler ==
  /\ pc = "parsedArgs"
  /\ pc' = "awaiting"
  /\ Step("invoke")
  /\ UNCHANGED modVars
  /\ UNCHANGED <<schema, value, heap, registry, enc, dec, val, branch>>
  /\ UNCHANGED <<returns, parsed, raw, validated, thrown, err>>

\* builders.ts:481, the user handler resolves
HandlerResolves ==
  /\ pc = "awaiting"
  /\ \E r \in Values : raw' = r
  /\ pc' = "settled"
  /\ Step("await")
  /\ UNCHANGED modVars
  /\ UNCHANGED <<schema, value, heap, registry, enc, dec, val, branch>>
  /\ UNCHANGED <<returns, parsed, validated, thrown, err>>

\* builders.ts:481, the user handler throws or rejects: nothing catches it
HandlerRejects ==
  /\ pc = "awaiting"
  /\ \E e \in HandlerThrows : thrown' = e /\ err' = e
  /\ pc' = "failed"
  /\ Step("await")
  /\ UNCHANGED modVars
  /\ UNCHANGED <<schema, value, heap, registry, enc, dec, val, branch>>
  /\ UNCHANGED <<returns, parsed, raw, validated>>

\* builders.ts:482-488, the parse of the result
ParseReturns ==
  /\ handlerAwaited(pc)
  /\ returns # 0
  /\ \E o \in ParseOutcomes(returns, raw) :
       IF o.ok
       THEN /\ validated' = o.out
            /\ pc' = "validated"
            /\ UNCHANGED <<thrown, err>>
       ELSE /\ thrown' = o.e
            /\ err' = handleZodValidationError(o.e, "returns")
            /\ pc' = "failed"
            /\ validated' = validated
  /\ Step("parse returns")
  /\ UNCHANGED modVars
  /\ UNCHANGED <<schema, value, heap, registry, enc, dec, val, branch>>
  /\ UNCHANGED <<returns, parsed, raw>>

\* builders.ts:485, toConvexJS(options.returns, validated)
EncodeValidated ==
  /\ pc = "validated"
  /\ enc' = toConvexJS(SchemaArg(returns), validated, 2)
  /\ pc' = "encodedResult"
  /\ Step("encode")
  /\ UNCHANGED modVars
  /\ UNCHANGED <<schema, value, heap, registry, dec, val, branch>>
  /\ UNCHANGED <<returns, parsed, raw, validated, thrown, err>>

\* builders.ts:491, toConvexJS(raw)
EncodeRaw ==
  /\ handlerAwaited(pc)
  /\ returns = 0
  /\ enc' = toConvexJS(raw, Undef, 1)
  /\ pc' = "encodedResult"
  /\ Step("encode")
  /\ UNCHANGED modVars
  /\ UNCHANGED <<schema, value, heap, registry, dec, val, branch>>
  /\ UNCHANGED <<returns, parsed, raw, validated, thrown, err>>

\* builders.ts:485, 491: the handler returns the encoded value
Return ==
  /\ pc = "encodedResult"
  /\ pc' = "returned"
  /\ Step("return")
  /\ UNCHANGED modVars
  /\ UNCHANGED <<schema, value, heap, registry, enc, dec, val, branch>>
  /\ UNCHANGED <<returns, parsed, raw, validated, thrown, err>>

NextCall ==
  \/ DecodeArgs
  \/ ParseArgs
  \/ InvokeHandler
  \/ HandlerResolves
  \/ HandlerRejects
  \/ ParseReturns
  \/ EncodeValidated
  \/ EncodeRaw
  \/ Return

SpecCall == InitCall /\ [][NextCall]_vars

(***************************************************************************)
(* builders.ts: containsCustom and its module-level cache.                 *)
(***************************************************************************)
\* customCheckCache.set(schema, result)
cacheSet(cache, s, result) ==
  IF result THEN [cache EXCEPT !.yes = @ \cup {s}] ELSE [cache EXCEPT !.no = @ \cup {s}]

CheckResult(result, cache) == [result |-> result, cache |-> cache]

\* the last lines of containsCustom: the result is cached and returned
cached(s, r) == CheckResult(r.result, cacheSet(r.cache, s, r.result))

RECURSIVE containsCustom(_, _, _)
RECURSIVE someCustom(_, _, _, _)

\* builders.ts:384-434, with the cache it reads and the cache it leaves
containsCustom(s, cache, currentDepth) ==
  IF s \in cache.yes THEN CheckResult(TRUE, cache)
  ELSE IF s \in cache.no THEN CheckResult(FALSE, cache)
  ELSE IF currentDepth > maxDepth THEN CheckResult(FALSE, cache)
  ELSE
    CASE N(s).kind = "custom" -> cached(s, CheckResult(TRUE, cache))
      [] N(s).kind = "union" -> cached(s, someCustom(N(s).items, 1, cache, currentDepth + 1))
      [] N(s).kind \in {"optional", "nullable", "default"} ->
           cached(s, containsCustom(N(s).inner, cache, currentDepth + 1))
      [] OTHER -> cached(s, CheckResult(FALSE, cache))

\* options.some(opt => containsCustom(opt, maxDepth, depth)): the options after
\* the first that holds a custom are not looked at
someCustom(options, i, cache, depth) ==
  IF i > Len(options) THEN CheckResult(FALSE, cache)
  ELSE LET r == containsCustom(options[i], cache, depth) IN
    IF r.result THEN r ELSE someCustom(options, i + 1, r.cache, depth)

\* the schemas containsCustom is called on
CustomInputs == {1, 8, 10, 11, 20, 24} \cup CustomIds \cup DeepIds

(***************************************************************************)
(* SpecCustom: any sequence of containsCustom calls on one module.         *)
(***************************************************************************)
InitCustom ==
  /\ heap = AllNodes
  /\ schema = 0
  /\ value = Undef
  /\ registry = <<>>
  /\ pc = "start"
  /\ enc = Undef
  /\ dec = Undef
  /\ val = VAny
  /\ branch = 0
  /\ NoCall
  /\ NoModule

\* containsCustom(s), as the builders call it
CheckCustom ==
  /\ \E s \in CustomInputs :
       LET r == containsCustom(s, customCheckCache, 0) IN
         /\ schema' = s
         /\ hasCustom' = r.result
         /\ customCheckCache' = r.cache
  /\ pc' = "checked"
  /\ UNCHANGED <<value, heap, registry, enc, dec, val, branch, registered, cur, calls, others>>
  /\ UNCHANGED callVars

NextCustom == CheckCustom

SpecCustom == InitCustom /\ [][NextCustom]_vars

(***************************************************************************)
(* SpecReg: zQuery, zMutation or zAction registers a handler for an object *)
(* schema of arguments, and the handler is called once.                    *)
(***************************************************************************)
\* a registration that passes a validator for every returns schema
passReturns_always(given, custom) == given

\* builders.ts:465-468: options?.returns && !containsCustom(options.returns)
passReturns(given, custom) == given /\ ~custom

\* the returns schemas handlers are registered with
RegReturns == {0, 3, 8, 20, 24} \cup CustomIds

\* the cache earlier registrations may have left
RegCaches == {EmptyCache, containsCustom(71, EmptyCache, 0).cache}

InitReg ==
  /\ heap = AllNodes
  /\ schema \in ArgSchemas
  /\ value \in WireArgs
  /\ registry \in {<<>>, <<"bdate", "ustr">>}
  /\ returns \in RegReturns
  /\ pc = "unregistered"
  /\ enc = Undef
  /\ dec = Undef
  /\ val = VAny
  /\ branch = 0
  /\ parsed = Undef
  /\ raw = Undef
  /\ validated = Undef
  /\ thrown = NoError
  /\ err = NoError
  /\ steps = <<>>
  /\ customCheckCache \in RegCaches
  /\ hasCustom = FALSE
  /\ registered = Undef
  /\ cur = 1
  /\ calls = <<>>
  /\ others = Undef

\* builders.ts:450-472: the object the platform builder is called with;
\* containsCustom runs only when a returns schema is given
Register ==
  /\ pc = "unregistered"
  /\ LET c == IF returns # 0 THEN containsCustom(returns, customCheckCache, 0)
              ELSE CheckResult(FALSE, customCheckCache)
     IN /\ registered' =
             [args |-> zodToConvexFields(schema),
              returns |-> IF passReturns(returns # 0, c.result) THEN zodToConvex(returns)
                          ELSE Undef]
        /\ hasCustom' = c.result
        /\ customCheckCache' = c.cache
  /\ pc' = "start"
  /\ UNCHANGED <<schema, value, heap, registry, enc, dec, val, branch, cur, calls, others>>
  /\ UNCHANGED callVars

NextReg == Register \/ NextCall

SpecReg == InitReg /\ [][NextReg]_vars

(***************************************************************************)
(* SpecConc: two calls of wrapped handlers on one JavaScript thread.  A    *)
(* call runs until it awaits its user handler or ends; the other call may  *)
(* run in between.  The running call's locals are the variables of         *)
(* SpecCall, the other call's locals are parked in others; the registry    *)
(* and the cache of containsCustom belong to the module.                   *)
(***************************************************************************)
CallIds == {1, 2}

\* the locals of the running call: the closure of its handler and what the
\* handler has computed
Frame ==
  [schema |-> schema, value |-> value, returns |-> returns, pc |-> pc, enc |-> enc,
   dec |-> dec, parsed |-> parsed, raw |-> raw, validated |-> validated,
   thrown |-> thrown, err |-> err, steps |-> steps]

\* the locals of a call that has not started
Fresh(c) ==
  [schema |-> c.schema, value |-> c.value, returns |-> c.returns, pc |-> "start",
   enc |-> Undef, dec |-> Undef, parsed |-> Undef, raw |-> Undef, validated |-> Undef,
   thrown |-> NoError, err |-> NoError, steps |-> <<>>]

\* a handler that reads the options of the registration that ran last
ownReturns_last(own, last) == last

\* builders.ts:482: options is a parameter of the registration, so a handler
\* reads the returns schema it was registered with
ownReturns(own, last) == own

\* the handlers, the wire arguments and the handler results of the calls
ConcCalls ==
  [schema : {20},
   value : {Obj([k \in {"a", "b"} |-> IF k = "a" THEN Str("x") ELSE Num(1, FALSE)]),
            Obj([k \in {"a"} |-> Str("x")])},
   returns : {0, 3, 69}]
ConcResults == {Undef, Str("x")} \cup Dates

\* where a call leaves the thread to others: before it starts, at
\* await handler(ctx, parsed), and when it has ended
Suspended(p) == p \in {"start", "awaiting", "settled", "returned", "failed"}
Ended(p) == p \in {"returned", "failed"}

InitConc ==
  /\ heap = AllNodes
  /\ calls \in [CallIds -> ConcCalls]
  /\ cur = 1
  /\ others = Fresh(calls[2])
  /\ schema = calls[1].schema
  /\ value = calls[1].value
  /\ returns = calls[1].returns
  /\ registry \in {<<>>, <<"bdate", "ustr">>}
  /\ pc = "start"
  /\ enc = Undef
  /\ dec = Undef
  /\ val = VAny
  /\ branch = 0
  /\ parsed = Undef
  /\ raw = Undef
  /\ validated = Undef
  /\ thrown = NoError
  /\ err = NoError
  /\ steps = <<>>
  /\ customCheckCache = EmptyCache
  /\ hasCustom = FALSE
  /\ registered = Undef

\* builders.ts:481: the running call is suspended and the other call goes on
Switch ==
  /\ Suspended(pc)
  /\ ~Ended(others.pc)
  /\ cur' = 3 - cur
  /\ others' = Frame
  /\ schema' = others.schema
  /\ value' = others.value
  /\ returns' = ownReturns(others.returns, returns)
  /\ pc' = others.pc
  /\ enc' = others.enc
  /\ dec' = others.dec
  /\ parsed' = others.parsed
  /\ raw' = others.raw
  /\ validated' = others.validated
  /\ thrown' = others.thrown
  /\ err' = others.err
  /\ steps' = others.steps
  /\ UNCHANGED <<heap, registry, val, branch, customCheckCache, hasCustom, registered, calls>>

NextConc ==
  \/ Switch
  \/ NextCall /\ raw' \in ConcResults

SpecConc == InitConc /\ [][NextConc]_vars

(***************************************************************************)
(* Helpers of the properties.                                              *)
(***************************************************************************)
ChildrenOf(s) ==
  ({N(s).inner, N(s).orig} \cup {N(s).shape[i].n : i \in 1 .. Len(N(s).shape)}
     \cup {N(s).items[i] : i \in 1 .. Len(N(s).items)}) \ {0}

RECURSIVE ReachFrom(_, _)
ReachFrom(frontier, seen) ==
  IF frontier \subseteq seen THEN seen
  ELSE ReachFrom(UNION {ChildrenOf(s) : s \in frontier \ seen}, seen \cup frontier)

\* the nodes of the schema rooted at s
Reach(s) == ReachFrom({s}, {})

\* the kind of the wire form of a primitive schema
WireKind(kind) == IF kind = "date" THEN "number" ELSE kind

\* a union is unambiguous when its options are primitives no two of which
\* share a wire form
Unambiguous(s) ==
  LET o == N(s).items IN
    /\ \A i \in 1 .. Len(o) : N(o[i]).kind \in {"string", "number", "date", "null"}
    /\ \A i, j \in 1 .. Len(o) : i # j => WireKind(N(o[i]).kind) # WireKind(N(o[j]).kind)

SupportedKinds ==
  {"string", "number", "date", "null", "array", "object", "record", "tuple", "lazy",
   "optional", "nullable", "default", "union"}

\* the schemas the round-trip property speaks of
Supported(s) ==
  \A n \in Reach(s) :
    /\ N(n).kind \in SupportedKinds
    /\ N(n).tag = ""
    /\ \A i \in 1 .. Len(N(n).shape) : N(n).shape[i].n # 0
    /\ N(n).kind = "union" => Unambiguous(n)

\* a value with its undefined-valued keys left out: {a: undefined} and {} are
\* the same value to a deep comparison
RECURSIVE Norm(_)
Norm(v) ==
  CASE v.t = "arr" -> Arr([i \in 1 .. Len(v.items) |-> Norm(v.items[i])])
    [] v.t = "obj" -> Obj([k \in DefinedKeys(v.f) |-> Norm(v.f[k])])
    [] OTHER -> v

(***************************************************************************)
(* C1.  Round-trip identity: for every supported schema S (primitives,     *)
(* date, array, object, record, tuple, lazy, optional / nullable / default *)
(* wrappers, unambiguous unions) and every value v that S accepts,         *)
(* fromConvexJS(toConvexJS(S, v), S) equals v.                             *)
(***************************************************************************)
RoundTripIdentity ==
  (pc = "decoded" /\ Supported(schema) /\ Conforms(schema, value))
    => Norm(dec) = Norm(value)

(***************************************************************************)
(* C2.  Reverse round trip: for every schema S and every wire value y that *)
(* the validator zodToConvex(S) accepts, toConvexJS(S, fromConvexJS(y, S)) *)
(* equals y.                                                               *)
(***************************************************************************)
ReverseRoundTrip ==
  (pc = "reencoded" /\ ConvexAccepts(zodToConvex(schema), value)) => enc = value

(***************************************************************************)
(* C3.  For every schema graph with a self-reference reachable through a   *)
(* lazy node, zodToConvex terminates and does not raise, and the node that *)
(* is entered again is mapped to v.any().                                  *)
(***************************************************************************)
\* a lazy node of the schema from whose target the lazy node is reached again
Cyclic(s) ==
  \E n \in Reach(s) : N(n).kind = "lazy" /\ N(n).inner # 0 /\ n \in Reach(N(n).inner)

VChildren(x) ==
  CASE x.kind = "array" -> {x.element}
    [] x.kind = "object" -> {x.fields[k] : k \in DOMAIN x.fields}
    [] x.kind = "union" -> {x.members[i] : i \in 1 .. Len(x.members)}
    [] x.kind = "record" -> {x.key, x.value}
    [] OTHER -> {}

RECURSIVE HasOverflow(_)
HasOverflow(x) == x.kind = "overflow" \/ \E c \in VChildren(x) : HasOverflow(c)

RECURSIVE VDepth(_)
VDepth(x) ==
  IF VChildren(x) = {} THEN 1
  ELSE 1 + (CHOOSE d \in {VDepth(c) : c \in VChildren(x)} :
              \A e \in {VDepth(c) : c \in VChildren(x)} : e <= d)

CyclesTerminate ==
  (pc = "mapped" /\ Cyclic(schema)) =>
    /\ ~HasOverflow(val)
    /\ VDepth(val) <= Cardinality(Reach(schema))
    /\ \A n \in Reach(schema) :
         zodToConvexInternal(n, Reach(schema), 0) = Ret(VAny, Reach(schema))

\* Tree {a?: lazy(() => Tree), b: date} is mapped, its field a to optional any
CyclicMapped ==
  /\ pc = "mapped"
  /\ Cyclic(schema)
  /\ val.kind = "object"
  /\ val.fields["a"] = vOptional(VAny)
  /\ val.fields["b"] = VFloat64

(***************************************************************************)
(* C4.  For every object schema, at every nesting depth, a field whose     *)
(* schema is marked optional maps to an optional validator field and a     *)
(* field whose schema is not optional maps to a required validator field.  *)
(***************************************************************************)
\* the schema accepts a missing field: an optional, or a default or nullable
\* around one
RECURSIVE MarkedOptional(_)
MarkedOptional(s) ==
  \/ N(s).kind = "optional"
  \/ N(s).kind \in {"default", "nullable"} /\ MarkedOptional(N(s).inner)

\* the validator x of schema s, and of every object nested in its fields, flags
\* each field as the field's schema is marked
RECURSIVE FieldsFaithful(_, _)
FieldsFaithful(s, x) ==
  LET a == Unwrapped(s).actual IN
    (N(a).kind = "object" /\ x.kind = "object") =>
      \A i \in 1 .. Len(N(a).shape) :
        LET f == N(a).shape[i] IN
          f.n # 0 =>
            /\ f.k \in DOMAIN x.fields
            /\ MarkedOptional(f.n) <=> x.fields[f.k].isOptional = "optional"
            /\ FieldsFaithful(f.n, x.fields[f.k])

OptionalFieldsFaithful ==
  (pc = "mapped" /\ ~Cyclic(schema)) => FieldsFaithful(schema, val)

(***************************************************************************)
(* C5.  optional(nullable(X)) and nullable(optional(X)) both map to one    *)
(* construct: an optional validator whose content is the union of the      *)
(* validator of X and null, with no optional validator inside the union.   *)
(***************************************************************************)
\* the X of a schema that combines optional and nullable around X, 0 otherwise
OptNullInner(s) ==
  IF N(s).kind = "optional" /\ N(N(s).inner).kind = "nullable" THEN N(N(s).inner).inner
  ELSE IF N(s).kind = "nullable" /\ N(N(s).inner).kind = "optional" THEN N(N(s).inner).inner
  ELSE 0

OptionalNullableFlattens ==
  (pc = "mapped" /\ OptNullInner(schema) # 0) =>
    /\ val = vOptional(VUnion(<<zodToConvex(OptNullInner(schema)), VNull>>))
    /\ \A i \in 1 .. Len(val.members) : val.members[i].isOptional = "required"

OptionalNullableMapped ==
  /\ pc = "mapped"
  /\ N(schema).kind = "nullable"
  /\ OptNullInner(schema) # 0
  /\ val.isOptional = "optional"
  /\ val.kind = "union"

InnermostDefault(s) ==
  LET u == Unwrapped(s) IN u.defaultValue

MapperHonoursRegistry ==
  (pc = "mapped" /\ findBaseCodec(schema) # "none") =>
    val = codecToValidator(findBaseCodec(schema))

(***************************************************************************)
(* C8.  Encoding a value against a union schema tries the branches in      *)
(* declaration order and encodes the value with the first branch whose     *)
(* validation accepts it; no later branch is used when an earlier accepts. *)
(***************************************************************************)
\* the encode call on the root reaches the union loop
UnionEncoded ==
  /\ pc = "encoded"
  /\ N(schema).kind = "union"
  /\ value.t \notin {"undef", "null"}
  /\ findBaseCodec(schema) = "none"

Accepting(s, v) == {i \in 1 .. Len(N(s).items) : ZodAccepts(N(s).items[i], v)}

\* the first option in declaration order that accepts the value, 0 if none
FirstAccepted(s, v) ==
  IF Accepting(s, v) = {} THEN 0
  ELSE CHOOSE i \in Accepting(s, v) : \A j \in Accepting(s, v) : i <= j

UnionEncodesFirstAccepting ==
  (UnionEncoded /\ FirstAccepted(schema, value) # 0) =>
    /\ branch = FirstAccepted(schema, value)
    /\ enc = schemaToConvex(value, N(schema).items[FirstAccepted(schema, value)])

\* two options accept the value and encode it differently; the first one's
\* encoding is the result
FirstOfTwoEncoded ==
  /\ UnionEncoded
  /\ Cardinality(Accepting(schema, value)) = 2
  /\ schemaToConvex(value, N(schema).items[1]) # schemaToConvex(value, N(schema).items[2])
  /\ branch = 1
  /\ enc = schemaToConvex(value, N(schema).items[1])

(***************************************************************************)
(* C9.  For a union [ObjectA, ObjectB] in which ObjectA's fields are a     *)
(* subset of ObjectB's, encoding a value that matches ObjectB's full shape *)
(* selects ObjectB, so every ObjectB-only field is encoded through         *)
(* ObjectB's field schema.                                                 *)
(***************************************************************************)
ShapeKeys(s) == {N(s).shape[i].k : i \in 1 .. Len(N(s).shape)}

\* s is a union of two object schemas; small and big name its options
IsObjectPair(s) ==
  /\ N(s).kind = "union"
  /\ Len(N(s).items) = 2
  /\ \A i \in 1 .. 2 : N(N(s).items[i]).kind = "object"

\* option b of the pair declares every field of option a and more
SubsetOf(s, a, b) ==
  /\ ShapeKeys(N(s).items[a]) \subseteq ShapeKeys(N(s).items[b])
  /\ ShapeKeys(N(s).items[a]) # ShapeKeys(N(s).items[b])

\* value has every field of option b of the pair, each as its schema wants it
FullShape(s, b, v) ==
  /\ Conforms(N(s).items[b], v)
  /\ DOMAIN v.f = ShapeKeys(N(s).items[b])

OnlyIn(s, b, a) == ShapeKeys(N(s).items[b]) \ ShapeKeys(N(s).items[a])

SubsetUnionSelectsB ==
  (UnionEncoded /\ IsObjectPair(schema) /\ SubsetOf(schema, 1, 2)
     /\ FullShape(schema, 2, value)) =>
    /\ branch = 2
    /\ \A k \in OnlyIn(schema, 2, 1) :
         enc.f[k] = schemaToConvex(value.f[k], ShapeGet(N(schema).items[2], k))

\* the schema-agnostic conversion, as the specification words it: dates become
\* epoch milliseconds, undefined-valued keys are dropped, the rest is kept
RECURSIVE Converted(_)
Converted(v) ==
  CASE v.t = "date" -> Num(v.ms, FALSE)
    [] v.t = "arr" -> Arr([i \in 1 .. Len(v.items) |-> Converted(v.items[i])])
    [] v.t = "obj" -> Obj([k \in {j \in DOMAIN v.f : v.f[j] # Undef} |-> Converted(v.f[k])])
    [] OTHER -> v

\* C9 as amended: the first declared option that accepts the value is selected.
\* Declared [ObjectA, ObjectB], that is ObjectA whenever it accepts the value (an
\* object schema accepts keys it does not declare), and the ObjectB-only fields
\* go through the schema-agnostic conversion; declared [ObjectB, ObjectA], it is
\* ObjectB, and the ObjectB-only fields go through ObjectB's field schemas.
SubsetUnionSelectsFirst ==
  /\ (UnionEncoded /\ IsObjectPair(schema) /\ SubsetOf(schema, 1, 2)
        /\ FullShape(schema, 2, value) /\ ZodAccepts(N(schema).items[1], value)) =>
       /\ branch = 1
       /\ \A k \in OnlyIn(schema, 2, 1) : enc.f[k] = Converted(value.f[k])
  /\ (UnionEncoded /\ IsObjectPair(schema) /\ SubsetOf(schema, 2, 1)
        /\ FullShape(schema, 1, value)) =>
       /\ branch = 1
       /\ \A k \in OnlyIn(schema, 1, 2) :
            enc.f[k] = schemaToConvex(value.f[k], ShapeGet(N(schema).items[1], k))

\* ObjectA was selected for a value of ObjectB's full shape, and an ObjectB-only
\* field came out differently from what ObjectB's field schema gives
SubsetUnionTookA ==
  /\ UnionEncoded
  /\ IsObjectPair(schema)
  /\ SubsetOf(schema, 1, 2)
  /\ FullShape(schema, 2, value)
  /\ branch = 1
  /\ \E k \in OnlyIn(schema, 2, 1) :
       enc.f[k] # schemaToConvex(value.f[k], ShapeGet(N(schema).items[2], k))

UnionDecoded == pc = "wdecoded" /\ N(schema).kind = "union" /\ findBaseCodec(schema) = "none"

\* option i of the union decodes the value to something its own parse accepts
Qualifies(s, y, i) == ZodAccepts(N(s).items[i], fromConvexJS(y, N(s).items[i]))

UnionDecodesFirstQualifying ==
  UnionDecoded =>
    LET q == {i \in 1 .. Len(N(schema).items) : Qualifies(schema, value, i)} IN
      IF q = {} THEN dec = value
      ELSE \E i \in q :
             /\ \A j \in q : i <= j
             /\ dec = fromConvexJS(value, N(schema).items[i])

\* number | date decodes the number 1 with its first branch, although the
\* second branch would have made a date of it
FirstQualifyingDecoded ==
  /\ UnionDecoded
  /\ schema = 25
  /\ value = Num(1, FALSE)
  /\ Qualifies(schema, value, 1) /\ Qualifies(schema, value, 2)
  /\ dec = value

(***************************************************************************)
(* C12.  In every call of a wrapped handler the steps happen strictly in   *)
(* the order decode, parse args, invoke and await the user handler, parse  *)
(* returns (when a returns schema is given), encode; no step starts before *)
(* the previous one has completed and a value is returned only after the   *)
(* encode step.                                                            *)
(***************************************************************************)
IsPrefix(p, q) == Len(p) <= Len(q) /\ \A i \in 1 .. Len(p) : p[i] = q[i]

\* the completed steps of a call that runs to its return
FullOrder(r) ==
  IF r # 0
  THEN <<"decode", "parse args", "invoke", "await", "parse returns", "encode", "return">>
  ELSE <<"decode", "parse args", "invoke", "await", "encode", "return">>

StepsInOrder ==
  /\ IsPrefix(steps, FullOrder(returns))
  /\ pc = "returned" => steps = FullOrder(returns)

\* a call with a returns schema has run to its return
CallReturnedValidated ==
  /\ pc = "returned"
  /\ returns # 0
  /\ Len(steps) = 7
  /\ ZodAccepts(returns, raw)

(***************************************************************************)
(* C13.  If parsing the decoded arguments against the argument schema      *)
(* fails, the call fails with a structured validation error whose context  *)
(* tag is "args", and the user handler is never invoked in that call.      *)
(***************************************************************************)
InSteps(name) == \E i \in 1 .. Len(steps) : steps[i] = name

IsValidationError(e, context) ==
  e.t = "ConvexError" /\ e.data.error = "ZodValidationError" /\ e.data.context = context

ArgsFailureIsTagged ==
  (InSteps("parse args") /\ ~ZodAccepts(schema, fromConvexJS(value, schema)))
    => /\ pc = "failed"
       /\ IsValidationError(err, "args")
       /\ ~InSteps("invoke")
       /\ raw = Undef /\ enc = Undef

\* the wire arguments {a: "x"} lack the date ObjectB requires
ArgsRejected ==
  /\ pc = "failed"
  /\ schema = 20
  /\ value = Obj([k \in {"a"} |-> Str("x")])
  /\ thrown.t = "ZodError"
  /\ steps = <<"decode", "parse args">>

(***************************************************************************)
(* C14.  If a returns schema is given and the user handler's result does   *)
(* not parse against it, the call fails with a structured validation error *)
(* whose context tag is "returns" and no value is returned; an error that  *)
(* is not a schema validation error (including any error thrown by the     *)
(* user handler) reaches the caller as the same error, unwrapped.          *)
(***************************************************************************)
\* the last completed step
LastStep == IF steps = <<>> THEN "" ELSE steps[Len(steps)]

ReturnsFailureIsTagged ==
  /\ (returns # 0 /\ InSteps("parse returns") /\ ~ZodAccepts(returns, raw))
       => /\ pc = "failed"
          /\ IsValidationError(err, "returns")
          /\ ~InSteps("return")
          /\ enc = Undef
  /\ (pc = "failed" /\ (thrown.t # "ZodError" \/ LastStep = "await")) => err = thrown

\* the handler resolved to a value the returns schema z.date() rejects
ReturnsRejected ==
  /\ pc = "failed"
  /\ returns = 3
  /\ raw = Str("x")
  /\ thrown.t = "ZodError"
  /\ LastStep = "parse returns"

(***************************************************************************)
(* C15.  Every value returned by a wrapped handler is wire-safe whether or *)
(* not a returns schema is given: it contains no date value at any depth   *)
(* and no object key whose value is undefined; without a returns schema    *)
(* the result is exactly the schema-agnostic conversion of the handler's   *)
(* raw result.                                                             *)
(***************************************************************************)
RECURSIVE WireSafe(_)
WireSafe(v) ==
  CASE v.t = "date" -> FALSE
    [] v.t = "arr" -> \A i \in 1 .. Len(v.items) : WireSafe(v.items[i])
    [] v.t = "obj" -> \A k \in DOMAIN v.f : v.f[k].t # "undef" /\ WireSafe(v.f[k])
    [] OTHER -> TRUE

ReturnedIsWireSafe ==
  pc = "returned" =>
    /\ WireSafe(enc)
    /\ returns = 0 => enc = basicToConvex(raw)

\* a result holding a date and an undefined key was returned, with and
\* without a returns schema
UnsafeResultReturned ==
  /\ pc = "returned"
  /\ returns \in {0, 5}
  /\ raw.t = "obj"
  /\ \E k \in DOMAIN raw.f : raw.f[k].t = "undef"
  /\ \E k \in DOMAIN raw.f : raw.f[k].t = "date"

(***************************************************************************)
(* C16.  Under a date schema, encoding a date value yields its epoch-      *)
(* millisecond number and decoding a number that is an epoch-millisecond   *)
(* value yields the date with that value, so that the date encodes to the  *)
(* number and decodes back to the same instant; the mapper maps a date     *)
(* schema to the numeric (float64) validator.                              *)
(***************************************************************************)
DateSchemaCodec ==
  N(schema).kind = "date" =>
    /\ zodToConvex(schema) = VFloat64
    /\ (pc \in {"encoded", "decoded"} /\ value.t = "date") => enc = Num(value.ms, FALSE)
    /\ (pc = "decoded" /\ value.t = "date") => dec = value
    /\ (pc = "wdecoded" /\ value.t = "num" /\ ~value.half)
         => dec = DateV(value.i) /\ schemaToConvex(dec, schema) = value

\* the date with time value 1 was encoded to the number 1 and decoded back
DateRoundTripped ==
  /\ pc = "decoded"
  /\ N(schema).kind = "date"
  /\ value = DateV(1)
  /\ enc = Num(1, FALSE)
  /\ dec = DateV(1)

(***************************************************************************)
(* C17.  The schema-agnostic conversion (toConvexJS called with a value    *)
(* only) returns, for any nesting of plain objects and arrays, a value in  *)
(* which every date is replaced by its epoch-millisecond number and every  *)
(* object key whose value is undefined is removed, all other keys, values, *)
(* array order and array length being preserved.                           *)
(***************************************************************************)
\* w is v with its dates made numbers and its undefined-valued keys removed
RECURSIVE AgnosticOf(_, _)
AgnosticOf(v, w) ==
  CASE v.t = "date" -> w = Num(v.ms, FALSE)
    [] v.t = "arr" ->
         /\ w.t = "arr"
         /\ Len(w.items) = Len(v.items)
         /\ \A i \in 1 .. Len(v.items) : AgnosticOf(v.items[i], w.items[i])
    [] v.t = "obj" ->
         /\ w.t = "obj"
         /\ DOMAIN w.f = {k \in DOMAIN v.f : v.f[k].t # "undef"}
         /\ \A k \in DOMAIN w.f : AgnosticOf(v.f[k], w.f[k])
    [] OTHER -> w = v

SchemaAgnosticConversion == pc = "basic" => AgnosticOf(value, enc)

\* {a: 1, b: undefined} became {a: 1}
UndefinedKeyDropped ==
  /\ pc = "basic"
  /\ value = Obj([k \in {"a", "b"} |-> IF k = "a" THEN Num(1, FALSE) ELSE Undef])
  /\ enc = Obj([k \in {"a"} |-> Num(1, FALSE)])

(***************************************************************************)
(* C18.  A record schema whose value schema is optional maps to a record   *)
(* validator with string keys whose value validator is the required union  *)
(* of the inner validator and null, never an optional validator; a default *)
(* on the value schema is kept as side-channel metadata on that union.     *)
(***************************************************************************)
\* the schema an optional value schema makes optional
OptionalInner(s) ==
  IF N(s).kind = "default"
  THEN IF N(N(s).inner).kind = "optional" THEN N(N(s).inner).inner ELSE N(s).inner
  ELSE IF N(s).kind = "optional" THEN N(s).inner
  ELSE s

\* a record whose value schema accepts undefined
OptionalValuedRecord(s) ==
  N(s).kind = "record" /\ N(s).inner # 0 /\ ZodAccepts(N(s).inner, Undef)

RecordValueIsUnionWithNull(s, x) ==
  /\ x.kind = "record"
  /\ x.isOptional = "required"
  /\ x.key = VString
  /\ x.value.isOptional = "required"
  /\ x.value.kind = "union"
  /\ x.value.members = <<zodToConvex(OptionalInner(N(s).inner)), VNull>>
  /\ x.value.zodDefault = (IF N(N(s).inner).kind = "default" THEN N(N(s).inner).dflt ELSE Undef)

OptionalRecordValuesFlattened ==
  (pc = "mapped" /\ OptionalValuedRecord(schema)) => RecordValueIsUnionWithNull(schema, val)

(***************************************************************************)
(* C19.  For a record schema with optional numeric values, encoding        *)
(* {x: 5, y: undefined} does not raise, and the wire form of y is          *)
(* consistent with both the mapped validator and decode: the encoded       *)
(* record is accepted by the mapped number-or-null value validator, and    *)
(* decoding the encoded record gives a value that the record schema        *)
(* accepts and that equals the input on every defined key.                 *)
(***************************************************************************)
\* a record of optional numbers, with or without a default
OptionalNumberRecord(s) ==
  OptionalValuedRecord(s) /\ N(OptionalInner(N(s).inner)).kind = "number"

\* an object with a defined and an undefined-valued key
HasUndefinedKey(v) ==
  /\ v.t = "obj"
  /\ \E k \in DOMAIN v.f : v.f[k].t = "undef"
  /\ \E k \in DOMAIN v.f : v.f[k].t # "undef"

UndefinedRecordValueConsistent ==
  (pc = "decoded" /\ OptionalNumberRecord(schema) /\ HasUndefinedKey(value)
     /\ ZodAccepts(schema, value))
    => /\ enc.t = "obj"
       /\ ConvexAccepts(zodToConvex(schema).value, Undef) = FALSE
       /\ \A k \in DOMAIN enc.f : ConvexAccepts(zodToConvex(schema).value, enc.f[k])
       /\ ZodAccepts(schema, dec)
       /\ \A k \in DefinedKeys(value.f) : k \in DOMAIN dec.f /\ dec.f[k] = value.f[k]

\* {a: 1, b: undefined} was encoded without b and decoded to {a: 1}
UndefinedRecordValueOmitted ==
  /\ pc = "decoded"
  /\ schema = 30
  /\ value = Obj([k \in {"a", "b"} |-> IF k = "a" THEN Num(1, FALSE) ELSE Undef])
  /\ enc = Obj([k \in {"a"} |-> Num(1, FALSE)])
  /\ dec = enc

(***************************************************************************)
(* C20.  Extra fields do not break round-tripping: for an object schema S  *)
(* and a value v with fields that S does not declare (including fields     *)
(* holding dates or nested objects), encoding does not reject v and        *)
(* fromConvexJS(toConvexJS(S, v), S) equals v on the undeclared fields as  *)
(* well as on the declared ones.                                           *)
(***************************************************************************)
\* the schemas both directions of the codec handle: no tuple, no lazy
Codable(s) == Supported(s) /\ \A n \in Reach(s) : N(n).kind \notin {"tuple", "lazy"}

\* the keys of v the object schema s does not declare
Undeclared(s, v) == {k \in DOMAIN v.f : ShapeGet(s, k) = 0}

\* an object schema and an accepted value with a field the schema does not declare
ExtraFieldsCase ==
  /\ pc = "decoded"
  /\ N(schema).kind = "object"
  /\ Codable(schema)
  /\ value.t = "obj"
  /\ ZodAccepts(schema, value)
  /\ Undeclared(schema, value) # {}

ExtraFieldsRoundTrip == ExtraFieldsCase => Norm(dec) = Norm(value)

\* the same, with what comes back for an undeclared field: its schema-agnostic
\* conversion, in which a date is a number
ExtraFieldsConverted ==
  ExtraFieldsCase =>
    /\ enc.t = "obj" /\ dec.t = "obj"
    /\ DOMAIN dec.f = DefinedKeys(value.f)
    /\ \A k \in DefinedKeys(value.f) :
         IF k \in Undeclared(schema, value)
         THEN dec.f[k] = basicToConvex(value.f[k])
         ELSE Norm(dec.f[k]) = Norm(value.f[k])

\* {a: "x", b: date, c: date} under {a: string, b: date}: b came back as a
\* date, c as a number
ExtraDateCameBackAsNumber ==
  /\ ExtraFieldsCase
  /\ schema = 20
  /\ value.f["b"].t = "date" /\ dec.f["b"] = value.f["b"]
  /\ value.f["c"].t = "date" /\ dec.f["c"] = GetTime(value.f["c"])

(***************************************************************************)
(* C21.  An enum schema with exactly one value maps to a single literal    *)
(* validator, with exactly two values to a union of two literal            *)
(* validators, and with N > 2 values to a union of N literal validators in *)
(* the enum's declared order.                                              *)
(***************************************************************************)
EnumMapsToLiterals ==
  (pc = "mapped" /\ N(schema).kind = "enum") =>
    LET values == N(schema).values IN
      IF Len(values) = 1 THEN val = VLiteral(values[1])
      ELSE /\ val.kind = "union"
           /\ val.isOptional = "required"
           /\ Len(val.members) = Len(values)
           /\ \A i \in 1 .. Len(values) : val.members[i] = VLiteral(values[i])

\* the enum of y, x, z was mapped to the union of the three literals in that order
EnumMapped ==
  /\ pc = "mapped"
  /\ schema = 61
  /\ val = VUnion(<<VLiteral("y"), VLiteral("x"), VLiteral("z")>>)

(***************************************************************************)
(* C22.  The error raised for a schema validation failure carries the kind *)
(* tag "ZodValidationError", the context tag passed by the caller, and one *)
(* issue per issue of the underlying validation error in the same order,   *)
(* each with its path joined by dots, its issue code and its message.      *)
(***************************************************************************)
\* the segments of a path, written out with a dot between two neighbours
RECURSIVE Dotted(_, _)
Dotted(path, i) ==
  IF i > Len(path) THEN ""
  ELSE (IF i > 1 THEN "." ELSE "") \o SegString(path[i]) \o Dotted(path, i + 1)

\* the context the wrapper passes for the parse that failed
CallerContext == IF LastStep = "parse args" THEN "args" ELSE "returns"

ValidationErrorShape ==
  (pc = "failed" /\ thrown.t = "ZodError" /\ LastStep # "await") =>
    /\ err.t = "ConvexError"
    /\ err.data.error = "ZodValidationError"
    /\ err.data.context = CallerContext
    /\ Len(err.data.issues) = Len(thrown.issues)
    /\ Len(thrown.issues) > 0
    /\ \A i \in 1 .. Len(thrown.issues) :
         /\ err.data.issues[i].path = Dotted(thrown.issues[i].path, 1)
         /\ err.data.issues[i].code = thrown.issues[i].code
         /\ err.data.issues[i].message = thrown.issues[i].message

\* a result rejected two levels down, at a.b, and again at b
NestedIssueFormatted ==
  /\ pc = "failed"
  /\ returns = 23
  /\ err.t = "ConvexError"
  /\ Len(err.data.issues) = 2
  /\ err.data.issues[1].path = "a.b"
  /\ err.data.issues[2].path = "b"

(***************************************************************************)
(* C23.  Each field of an object schema is mapped independently: the       *)
(* validator of a field equals the validator obtained by mapping that      *)
(* field's schema on its own, whatever the other fields are, including     *)
(* when the same schema node instance is used for more than one field of   *)
(* the tree and is not part of a cycle.                                    *)
(***************************************************************************)
FieldsMappedIndependently ==
  (pc = "mapped" /\ N(schema).kind = "object" /\ ~Cyclic(schema)) =>
    \A i \in 1 .. Len(N(schema).shape) :
      N(schema).shape[i].n # 0 =>
        /\ N(schema).shape[i].k \in DOMAIN val.fields
        /\ val.fields[N(schema).shape[i].k] = zodToConvex(N(schema).shape[i].n)

(***************************************************************************)
(* C24.  An object field whose schema value is absent or not a schema node *)
(* maps to a field with the accept-anything validator, both for the top-   *)
(* level field map (zodToConvexFields) and for object schemas nested       *)
(* inside another schema; the field key is present in the resulting        *)
(* validator in both cases.                                                *)
(***************************************************************************)
\* every field of the object schema s whose value is no schema is, in the
\* fields fs, present and the accept-anything validator
NonSchemaFieldsAreAny(s, fs) ==
  \A i \in 1 .. Len(N(s).shape) :
    ~isSchemaValue(N(s).shape[i].n) =>
      /\ N(s).shape[i].k \in DOMAIN fs
      /\ fs[N(s).shape[i].k] = VAny

HasNonSchemaField(s) ==
  N(s).kind = "object" /\ \E i \in 1 .. Len(N(s).shape) : ~isSchemaValue(N(s).shape[i].n)

\* the top-level field map only
FieldMapKeepsNonSchemaFields ==
  (pc = "fieldsMapped" /\ HasNonSchemaField(schema)) => NonSchemaFieldsAreAny(schema, val.fields)

NonSchemaFieldsKept ==
  /\ FieldMapKeepsNonSchemaFields
  /\ (pc = "mapped" /\ HasNonSchemaField(schema)) => NonSchemaFieldsAreAny(schema, val.fields)
  /\ (pc = "mapped" /\ N(schema).kind = "array" /\ N(schema).inner # 0
        /\ HasNonSchemaField(N(schema).inner))
       => NonSchemaFieldsAreAny(N(schema).inner, val.element.fields)

(***************************************************************************)
(* C25.  A branded or transformed schema (kind transform or pipe) for      *)
(* which the codec registry has no matching entry always maps to the       *)
(* accept-anything validator; the mapper never derives a structural        *)
(* validator for it.                                                       *)
(***************************************************************************)
\* a transform or pipe node no registry entry recognises was mapped
UnregisteredTransformMapped ==
  /\ pc = "mapped"
  /\ N(schema).kind \in {"transform", "pipe"}
  /\ findBaseCodec(schema) = "none"

UnregisteredTransformIsAny == UnregisteredTransformMapped => val = VAny

\* the same, with the exception of the code: a node whose brand metadata names
\* an original schema maps to the validator of that schema
UnregisteredTransformIsAnyOrOriginal ==
  UnregisteredTransformMapped =>
    IF brandOriginal(schema) # 0 THEN val = zodToConvex(brandOriginal(schema))
    ELSE val = VAny

\* the branded ObjectB was mapped to the object validator of ObjectB
BrandMappedToOriginal ==
  /\ UnregisteredTransformMapped
  /\ schema = 64
  /\ val = VObject([k \in {"a", "b"} |-> IF k = "a" THEN VString ELSE VFloat64])

(***************************************************************************)
(* C26.  The mapper never produces an optional validator directly inside   *)
(* a container: when the element schema of an array or the value schema of *)
(* a record is optional, the element or value validator is the required    *)
(* union of the inner validator and null, as the declared validator types  *)
(* say.                                                                    *)
(***************************************************************************)
\* an array or a record whose element or value schema is an optional
ContainerOfOptional(s) ==
  /\ N(s).kind \in {"array", "record"}
  /\ N(s).inner # 0
  /\ N(N(s).inner).kind = "optional"

\* the validator of what the container validator x holds
Contained(x) == IF x.kind = "array" THEN x.element ELSE x.value

ContainedIsUnionWithNull(s, x) ==
  /\ x.kind = N(s).kind
  /\ Contained(x).isOptional = "required"
  /\ Contained(x).kind = "union"
  /\ Contained(x).members = <<zodToConvex(N(N(s).inner).inner), VNull>>

NoOptionalInsideContainer ==
  (pc = "mapped" /\ ContainerOfOptional(schema)) => ContainedIsUnionWithNull(schema, val)

\* the record half alone
NoOptionalInsideRecord ==
  (pc = "mapped" /\ ContainerOfOptional(schema) /\ N(schema).kind = "record")
    => ContainedIsUnionWithNull(schema, val)

(***************************************************************************)
(* C27.  The cache of containsCustom is only an optimization: for every    *)
(* schema, after any sequence of earlier containsCustom calls on any       *)
(* schemas, calls that hit the depth limit included, containsCustom        *)
(* returns what an evaluation of the same schema without a cache, from     *)
(* depth 0, returns.                                                       *)
(***************************************************************************)
uncachedContainsCustom(s) == containsCustom(s, EmptyCache, 0).result

CacheIsOptimization ==
  pc = "checked" => hasCustom = uncachedContainsCustom(schema)

(***************************************************************************)
(* C28.  Whenever no schema is provided, toConvexJS performs the basic,    *)
(* schema-agnostic conversion of the value: toConvexJS(value) and          *)
(* toConvexJS(undefined, value) both return the basic conversion of value. *)
(***************************************************************************)
\* the call with the value alone
OneArgumentIsBasic == pc = "basic" => enc = basicToConvex(value)

NoSchemaIsBasic ==
  /\ OneArgumentIsBasic
  /\ pc = "noschema" => enc = basicToConvex(value)

(***************************************************************************)
(* C29.  At registration, zQuery, zMutation and zAction pass a native      *)
(* returns validator to the platform builder if and only if a returns      *)
(* schema is given and containsCustom of it is false; whether or not that  *)
(* validator was passed, every call still parses the handler's result      *)
(* against the returns schema when one is given, and the argument          *)
(* validators are always passed.                                           *)
(***************************************************************************)
RegistrationAndCallAgree ==
  /\ pc # "unregistered" =>
       /\ registered.args = zodToConvexFields(schema)
       /\ (registered.returns # Undef) <=> (returns # 0 /\ ~uncachedContainsCustom(returns))
       /\ registered.returns # Undef => registered.returns = zodToConvex(returns)
  /\ (returns # 0 /\ pc \in {"validated", "encodedResult", "returned"}) =>
       /\ InSteps("parse returns")
       /\ ZodAccepts(returns, raw)
       /\ validated = ZodOutput(returns, raw)
  /\ (returns # 0 /\ pc = "returned") =>
       enc = toConvexJS(SchemaArg(returns), ZodOutput(returns, raw), 2)

\* a handler registered without a returns validator, for a returns schema that
\* holds a custom, has parsed its result and returned
CustomReturnsStillParsed ==
  /\ pc = "returned"
  /\ returns = 69
  /\ hasCustom
  /\ registered.returns = Undef
  /\ registered.args = zodToConvexFields(schema)
  /\ InSteps("parse returns")
  /\ raw = Str("x")

(***************************************************************************)
(* C30.  Concurrent calls are independent: for any interleaving of two     *)
(* calls of wrapped handlers, each of which may suspend while awaiting its *)
(* user handler, every call's result or error equals what the same call    *)
(* produces when run alone; and no step of a call writes state that the    *)
(* other call reads: the other call's locals, the codec registry and the   *)
(* module's cache stay as they are.                                        *)
(***************************************************************************)
\* the user handler of the call with locals f threw
HandlerThrew(f) ==
  f.pc = "failed" /\ f.steps # <<>> /\ f.steps[Len(f.steps)] = "await"

\* what the call c produces when run alone, given what its user handler did
AloneOutcome(c, f) ==
  LET decoded == fromConvexJS(c.value, c.schema) IN
    IF ~ZodAccepts(c.schema, decoded)
    THEN [ok |-> FALSE,
          e |-> handleZodValidationError(ZodError(ZodIssues(c.schema, decoded, <<>>)), "args")]
    ELSE IF HandlerThrew(f) THEN [ok |-> FALSE, e |-> f.thrown]
    ELSE IF c.returns = 0 THEN [ok |-> TRUE, v |-> toConvexJS(f.raw, Undef, 1)]
    ELSE IF ZodAccepts(c.returns, f.raw)
    THEN [ok |-> TRUE,
          v |-> toConvexJS(SchemaArg(c.returns), ZodOutput(c.returns, f.raw), 2)]
    ELSE [ok |-> FALSE,
          e |-> handleZodValidationError(ZodError(ZodIssues(c.returns, f.raw, <<>>)), "returns")]

\* what the call with locals f has produced
Outcome(f) ==
  IF f.pc = "returned" THEN [ok |-> TRUE, v |-> f.enc] ELSE [ok |-> FALSE, e |-> f.err]

SameAsAlone(c, f) == Ended(f.pc) => Outcome(f) = AloneOutcome(calls[c], f)

\* a single call does produce AloneOutcome
AloneOutcomeIsOneCall ==
  (Ended(pc) /\ (returns = 0 \/ N(returns).kind # "transform")) =>
    Outcome(Frame) = AloneOutcome([schema |-> schema, value |-> value, returns |-> returns],
                                  Frame)

ConcurrentCallsIndependent ==
  /\ [](SameAsAlone(cur, Frame) /\ SameAsAlone(3 - cur, others))
  /\ [][/\ registry' = registry
        /\ customCheckCache' = customCheckCache
        /\ calls' = calls
        /\ cur' = cur => others' = others
        /\ cur' # cur => (others' = Frame /\ Frame' = others)]_vars

\* the second call has run from its start to its return while the first call,
\* registered with another returns schema, is awaiting its user handler
CallEndedWhileOtherAwaits ==
  /\ cur = 2
  /\ pc = "returned"
  /\ steps = FullOrder(returns)
  /\ returns = 69
  /\ raw = Str("x")
  /\ others.pc = "awaiting"
  /\ others.returns = 3

====
